---- MODULE Spec2Model ----
(***************************************************************************)
(* Model of the document data model of hand_ocr (src/data_models.py), of  *)
(* the pipeline of src/structured_ocr.py that builds and exports it, and   *)
(* of the image splitting of src/handwritten_ocr.py and src/ocr_utils.py.  *)
(*                                                                         *)
(* A Python text is a sequence of one-character strings.  A Python value   *)
(* is a record tagged by its type in the field t.                          *)
(***************************************************************************)
EXTENDS Integers, Sequences, FiniteSets, TLC

VARIABLES
    raw,    \* the raw value handed to a record constructor for one field
    op,     \* the constructor / operation that ran last ("init" before any)
    fld,    \* the field of the record the raw value was given for
    ret,    \* what the field's pre-validator returned
    rec,    \* the constructor's outcome: the stored field, or ValidationError
    again,  \* the outcome of the same construction made a second time
    response, \* the extraction model's response, decoded (or InvalidJSON)
    filename, \* the name of the image the response is for
    raised,   \* the exception the try block of extract_structured_data
              \* raised (None if it raised none)
    doc,      \* the StructuredDocument extract_structured_data returned
    flat,     \* what doc.to_flat_dict() returned last
    rows,     \* what doc.to_line_items_list() returned last
    row_ids,  \* which mapping object each element of rows is
    written,  \* the row and key a caller assigned to since then
    dump,     \* the JSON text tree save_results wrote for doc
    rebuilt,  \* the records built again from dump
    images,   \* image_files of process_all_images: what happens to each
    results,  \* the list process_all_images appends to
    all_items, \* the rows save_to_csv hands to the DataFrame
    summary,  \* successful and failed as main counts them, or what the
              \* counting raised
    split,    \* the splitting function that was called
    height,   \* the height of the image it was given
    sections, \* the number of sections it makes
    overlap,  \* the overlap fraction, in hundredths
    sections_list \* the crop boxes (upper, lower) appended so far

fieldvars == <<raw, op, fld, ret, rec, again>>
docvars == <<response, filename, raised, doc, flat, rows, row_ids, written,
            dump, rebuilt>>
batchvars == <<images, results, all_items, summary>>
splitvars == <<split, height, sections, overlap, sections_list>>
vars == <<raw, op, fld, ret, rec, again, response, filename, raised, doc,
          flat, rows, row_ids, written, dump, rebuilt, images, results,
          all_items, summary, split, height, sections, overlap,
          sections_list>>

----------------------------------------------------------------------------
(* Python values *)

None == [t |-> "None"]
Unset == [t |-> "unset"]
ValidationError == [t |-> "ValidationError"]
InvalidOperation == [t |-> "InvalidOperation"]
ValueError == [t |-> "ValueError"]
NoMatch == [t |-> "NoMatch"]
TypeError == [t |-> "TypeError"]
InvalidJSON == [t |-> "JSONDecodeError"]
\* what groq_llm.invoke raises when the call fails
APIError == [t |-> "APIError"]
\* None has no attribute startswith
AttributeError == [t |-> "AttributeError"]

Str(s) == [t |-> "str", s |-> s]
\* decimal.Decimal: sign, coefficient and exponent, as Decimal.as_tuple()
Dec(neg, coef, exp) == [t |-> "Decimal", neg |-> neg, coef |-> coef, exp |-> exp]
\* a JSON number (int or float), by its decimal notation
Num(neg, coef, exp) == [t |-> "number", neg |-> neg, coef |-> coef, exp |-> exp]
\* datetime.date
Date(y, m, d) == [t |-> "date", y |-> y, m |-> m, d |-> d]

\* a Python int
IntVal(n) == [t |-> "int", n |-> n]
\* a Python float, by its value coef * 10^exp with no trailing zero in coef
Float(neg, coef, exp) == [t |-> "float", neg |-> neg, coef |-> coef, exp |-> exp]
\* datetime.datetime, by the tick of the clock it was read at
Datetime(n) == [t |-> "datetime", n |-> n]
\* a dict with text keys, and a list
Dict(d) == [t |-> "dict", d |-> d]
List(l) == [t |-> "list", l |-> l]

IsStr(v) == v.t = "str"

Digits == {"0", "1", "2", "3", "4", "5", "6", "7", "8", "9"}

\* the regular expression class \d
IsDigit(c) == c \in Digits

DigitVal(c) ==
    CASE c = "0" -> 0 [] c = "1" -> 1 [] c = "2" -> 2 [] c = "3" -> 3
      [] c = "4" -> 4 [] c = "5" -> 5 [] c = "6" -> 6 [] c = "7" -> 7
      [] c = "8" -> 8 [] c = "9" -> 9

\* int(text) of a text of digits
RECURSIVE PyInt(_)
PyInt(s) ==
    IF s = <<>> THEN 0
    ELSE 10 * PyInt(SubSeq(s, 1, Len(s) - 1)) + DigitVal(s[Len(s)])

----------------------------------------------------------------------------
(* Currency coercion: LineItem.parse_price and its three copies *)

\* the characters re.sub(r'[^\d.,\-]', '', v) keeps
CurrencyKept(c) == IsDigit(c) \/ c \in {".", ",", "-"}

ReSubCurrency(s) == SelectSeq(s, CurrencyKept)

NotComma(c) == c # ","

\* a coercion that forgets to drop the thousands separators
ReplaceComma_Kept(s) == s

\* cleaned.replace(',', '')
ReplaceComma(s) == SelectSeq(s, NotComma)

IsDot(c) == c = "."

\* Decimal(text) for a text of digits, '.' and '-': an optional sign, then
\* digits with at most one point and at least one digit
PyDecimal(s) ==
    LET neg == s # <<>> /\ s[1] = "-"
        body == IF neg THEN Tail(s) ELSE s
        digs == SelectSeq(body, IsDigit)
        dots == SelectSeq(body, IsDot)
        dot == CHOOSE i \in 1..Len(body) : body[i] = "."
        frac == IF dots = <<>> THEN 0 ELSE Len(body) - dot
    IN  IF /\ digs # <<>>
           /\ Len(dots) <= 1
           /\ Len(digs) + Len(dots) = Len(body)
        THEN Dec(neg, PyInt(digs), 0 - frac)
        ELSE InvalidOperation

\* LineItem.parse_price, the pre-validator of unit_price and total_price
parse_price(v) ==
    IF v = None THEN None
    ELSE IF IsStr(v) /\ ReSubCurrency(v.s) # <<>>
    THEN LET d == PyDecimal(ReplaceComma(ReSubCurrency(v.s)))
         IN  IF d = InvalidOperation THEN None ELSE d
    ELSE v

\* TaxInfo.parse_tax_amount, the pre-validator of tax_amount
parse_tax_amount(v) ==
    IF v = None THEN None
    ELSE IF IsStr(v) /\ ReSubCurrency(v.s) # <<>>
    THEN LET d == PyDecimal(ReplaceComma(ReSubCurrency(v.s)))
         IN  IF d = InvalidOperation THEN None ELSE d
    ELSE v

\* PaymentInfo.parse_amount, the pre-validator of paid_amount and balance_due
parse_amount(v) ==
    IF v = None THEN None
    ELSE IF IsStr(v) /\ ReSubCurrency(v.s) # <<>>
    THEN LET d == PyDecimal(ReplaceComma(ReSubCurrency(v.s)))
         IN  IF d = InvalidOperation THEN None ELSE d
    ELSE v

\* a coercion of the totals that keeps the commas of the remainder
parse_amounts_CommasKept(v) ==
    IF v = None THEN None
    ELSE IF IsStr(v) /\ ReSubCurrency(v.s) # <<>>
    THEN LET d == PyDecimal(ReSubCurrency(v.s))
         IN  IF d = InvalidOperation THEN None ELSE d
    ELSE v

\* StructuredDocument.parse_amounts, the pre-validator of subtotal and
\* total_amount
parse_amounts(v) ==
    IF v = None THEN None
    ELSE IF IsStr(v) /\ ReSubCurrency(v.s) # <<>>
    THEN LET d == PyDecimal(ReplaceComma(ReSubCurrency(v.s)))
         IN  IF d = InvalidOperation THEN None ELSE d
    ELSE v

----------------------------------------------------------------------------
(* Field types: what the declared type of a field accepts from its          *)
(* pre-validator                                                            *)

\* Optional[Decimal]: a Decimal is stored, a number is converted, a text is
\* stored only if it is a decimal literal as a whole
FieldDecimal(x) ==
    CASE x.t = "None" -> None
      [] x.t = "Decimal" -> x
      [] x.t = "number" -> Dec(x.neg, x.coef, x.exp)
      [] x.t = "str" ->
            IF PyDecimal(x.s) = InvalidOperation THEN ValidationError
            ELSE PyDecimal(x.s)
      [] OTHER -> ValidationError

\* Optional[str]
FieldStr(x) ==
    IF x.t \in {"None", "str"} THEN x ELSE ValidationError

\* Optional[Union[int, float]] and Optional[float]
FieldNumber(x) ==
    IF x.t \in {"None", "number"} THEN x ELSE ValidationError

\* a record is built only if every field was accepted
Built(r, names) ==
    IF \E n \in names : r[n] = ValidationError THEN ValidationError ELSE r

LineItemFields ==
    {"item_name", "quantity", "unit_price", "total_price", "item_code",
     "category"}

\* the mapping LineItem() is built from when a key is not given
NoLineItem == [n \in LineItemFields |-> None]

\* LineItem(**m)
LineItem(m) ==
    Built([item_name |-> FieldStr(m.item_name),
           quantity |-> FieldNumber(m.quantity),
           unit_price |-> FieldDecimal(parse_price(m.unit_price)),
           total_price |-> FieldDecimal(parse_price(m.total_price)),
           item_code |-> FieldStr(m.item_code),
           category |-> FieldStr(m.category)], LineItemFields)

TaxInfoFields == {"tax_rate", "tax_amount", "tax_type"}

NoTaxInfo == [n \in TaxInfoFields |-> None]

\* TaxInfo(**m)
TaxInfo(m) ==
    Built([tax_rate |-> FieldNumber(m.tax_rate),
           tax_amount |-> FieldDecimal(parse_tax_amount(m.tax_amount)),
           tax_type |-> FieldStr(m.tax_type)], TaxInfoFields)


----------------------------------------------------------------------------
(* Date coercion: DocumentInfo.parse_date *)

\* the regular expression class [/-]
IsSep(c) == c \in {"/", "-"}

DigitsAt(s, i, n) ==
    /\ i + n - 1 <= Len(s)
    /\ \A k \in i..(i + n - 1) : IsDigit(s[k])

SepAt(s, i) == i <= Len(s) /\ IsSep(s[i])

\* date_patterns: the widths \d{..} allows each of the three groups
date_patterns ==
    << <<{1, 2}, {1, 2}, {4}>>,      \* (\d{1,2})[/-](\d{1,2})[/-](\d{4})
       <<{4}, {1, 2}, {1, 2}>>,      \* (\d{4})[/-](\d{1,2})[/-](\d{1,2})
       <<{1, 2}, {1, 2}, {2}>> >>    \* (\d{1,2})[/-](\d{1,2})[/-](\d{2})

\* the pattern's three groups of widths w match s from position p
MatchAt(s, p, w) ==
    /\ DigitsAt(s, p, w[1])
    /\ SepAt(s, p + w[1])
    /\ DigitsAt(s, p + w[1] + 1, w[2])
    /\ SepAt(s, p + w[1] + w[2] + 1)
    /\ DigitsAt(s, p + w[1] + w[2] + 2, w[3])

Widths(pat) == {<<a, b, c>> : a \in pat[1], b \in pat[2], c \in pat[3]}

\* a quantifier takes as much as it can, the leftmost one first
Greedier(w, u) ==
    \/ w[1] > u[1]
    \/ w[1] = u[1] /\ w[2] > u[2]
    \/ w[1] = u[1] /\ w[2] = u[2] /\ w[3] >= u[3]

\* re.search(pattern, s).groups(): the leftmost match, or NoMatch
ReSearch(pat, s) ==
    LET starts == {p \in 1..Len(s) : \E w \in Widths(pat) : MatchAt(s, p, w)}
    IN  IF starts = {} THEN NoMatch
        ELSE LET p == CHOOSE q \in starts : \A r \in starts : q <= r
                 ws == {w \in Widths(pat) : MatchAt(s, p, w)}
                 w == CHOOSE x \in ws : \A u \in ws : Greedier(x, u)
             IN  <<SubSeq(s, p, p + w[1] - 1),
                   SubSeq(s, p + w[1] + 1, p + w[1] + w[2]),
                   SubSeq(s, p + w[1] + w[2] + 2, p + w[1] + w[2] + w[3] + 1)>>

IsLeap(y) == y % 4 = 0 /\ (y % 100 # 0 \/ y % 400 = 0)

DaysInMonth(y, m) ==
    CASE m \in {1, 3, 5, 7, 8, 10, 12} -> 31
      [] m \in {4, 6, 9, 11} -> 30
      [] OTHER -> IF IsLeap(y) THEN 29 ELSE 28

\* datetime.date(y, m, d)
PyDate(y, m, d) ==
    IF /\ 1 <= y /\ y <= 9999    \* MINYEAR, MAXYEAR
       /\ 1 <= m /\ m <= 12
       /\ 1 <= d /\ d <= DaysInMonth(y, m)
    THEN Date(y, m, d)
    ELSE ValueError

\* a loop body that reads the first pattern as DD/MM/YYYY
DateOfGroups_DayFirst(i, groups) ==
    IF i = 1
    THEN PyDate(PyInt(groups[3]), PyInt(groups[2]), PyInt(groups[1]))
    ELSE PyDate(PyInt(groups[3]), PyInt(groups[2]), PyInt(groups[3]))

\* the body of the loop of parse_date for the match groups of pattern i
DateOfGroups(i, groups) ==
    LET year == IF Len(groups[3]) = 2
                THEN IF PyInt(groups[3]) < 50
                     THEN 2000 + PyInt(groups[3])
                     ELSE 1900 + PyInt(groups[3])
                ELSE PyInt(groups[3])
    IN  IF i = 1
        THEN PyDate(year, PyInt(groups[1]), PyInt(groups[2]))
        ELSE PyDate(year, PyInt(groups[2]), PyInt(groups[3]))

\* the loop of parse_date from pattern i on: a pattern that does not match,
\* or whose groups are no date, passes on to the next one
RECURSIVE ParseDateFrom(_, _)
ParseDateFrom(v, i) ==
    IF i > Len(date_patterns) THEN v
    ELSE LET groups == ReSearch(date_patterns[i], v.s)
         IN  IF groups = NoMatch \/ DateOfGroups(i, groups) = ValueError
             THEN ParseDateFrom(v, i + 1)
             ELSE DateOfGroups(i, groups)

\* the date of pattern i for the text s, or NoMatch
DateOfPattern(i, s) ==
    IF ReSearch(date_patterns[i], s) = NoMatch
          \/ DateOfGroups(i, ReSearch(date_patterns[i], s)) = ValueError
    THEN NoMatch
    ELSE DateOfGroups(i, ReSearch(date_patterns[i], s))

\* a coercion that tries the patterns from the last to the first
parse_date_LastFirst(v) ==
    IF v = None THEN None
    ELSE IF ~IsStr(v) THEN v
    ELSE IF DateOfPattern(3, v.s) # NoMatch THEN DateOfPattern(3, v.s)
    ELSE IF DateOfPattern(2, v.s) # NoMatch THEN DateOfPattern(2, v.s)
    ELSE IF DateOfPattern(1, v.s) # NoMatch THEN DateOfPattern(1, v.s)
    ELSE v

\* DocumentInfo.parse_date, the pre-validator of document_date
parse_date(v) ==
    IF v = None THEN None
    ELSE IF IsStr(v) THEN ParseDateFrom(v, 1)
    ELSE v

\* Optional[date]: a date is stored; a text is stored only if it is an
\* ISO-8601 date YYYY-MM-DD as a whole
FieldDate(x) ==
    CASE x.t = "None" -> None
      [] x.t = "date" -> x
      [] x.t = "str" ->
            IF /\ Len(x.s) = 10
               /\ DigitsAt(x.s, 1, 4) /\ x.s[5] = "-"
               /\ DigitsAt(x.s, 6, 2) /\ x.s[8] = "-"
               /\ DigitsAt(x.s, 9, 2)
               /\ PyDate(PyInt(SubSeq(x.s, 1, 4)), PyInt(SubSeq(x.s, 6, 7)),
                         PyInt(SubSeq(x.s, 9, 10))) # ValueError
            THEN PyDate(PyInt(SubSeq(x.s, 1, 4)), PyInt(SubSeq(x.s, 6, 7)),
                        PyInt(SubSeq(x.s, 9, 10)))
            ELSE ValidationError
      [] OTHER -> ValidationError

DocumentInfoFields ==
    {"document_type", "document_number", "document_date", "reference_number"}

NoDocumentInfo == [n \in DocumentInfoFields |-> None]

\* DocumentInfo(**m)
DocumentInfo(m) ==
    Built([document_type |-> FieldStr(m.document_type),
           document_number |-> FieldStr(m.document_number),
           document_date |-> FieldDate(parse_date(m.document_date)),
           reference_number |-> FieldStr(m.reference_number)],
          DocumentInfoFields)

PaymentInfoFields ==
    {"payment_method", "payment_terms", "due_date", "paid_amount",
     "balance_due"}

NoPaymentInfo == [n \in PaymentInfoFields |-> None]

\* PaymentInfo(**m)
PaymentInfo(m) ==
    Built([payment_method |-> FieldStr(m.payment_method),
           payment_terms |-> FieldStr(m.payment_terms),
           due_date |-> FieldDate(m.due_date),
           paid_amount |-> FieldDecimal(parse_amount(m.paid_amount)),
           balance_due |-> FieldDecimal(parse_amount(m.balance_due))],
          PaymentInfoFields)


----------------------------------------------------------------------------
(* ContactInfo *)

\* the regular expression class \s, and what str.strip() removes
Whitespace == {" ", "\t", "\n", "\r", "\f"}

\* the characters re.sub(r'[^\d+\-\(\)\s]', '', v) keeps
PhoneKept(c) == IsDigit(c) \/ c \in {"+", "-", "(", ")"} \/ c \in Whitespace

\* str.strip()
RECURSIVE Strip(_)
Strip(s) ==
    IF s = <<>> THEN s
    ELSE IF s[1] \in Whitespace THEN Strip(Tail(s))
    ELSE IF s[Len(s)] \in Whitespace THEN Strip(SubSeq(s, 1, Len(s) - 1))
    ELSE s

LowerChar(c) ==
    CASE c = "A" -> "a" [] c = "B" -> "b" [] c = "C" -> "c" [] c = "D" -> "d"
      [] c = "E" -> "e" [] c = "F" -> "f" [] c = "G" -> "g" [] c = "H" -> "h"
      [] c = "I" -> "i" [] c = "J" -> "j" [] c = "K" -> "k" [] c = "L" -> "l"
      [] c = "M" -> "m" [] c = "N" -> "n" [] c = "O" -> "o" [] c = "P" -> "p"
      [] c = "Q" -> "q" [] c = "R" -> "r" [] c = "S" -> "s" [] c = "T" -> "t"
      [] c = "U" -> "u" [] c = "V" -> "v" [] c = "W" -> "w" [] c = "X" -> "x"
      [] c = "Y" -> "y" [] c = "Z" -> "z"
      [] OTHER -> c

\* str.lower()
Lower(s) == [i \in 1..Len(s) |-> LowerChar(s[i])]

\* the truth value of an optional text: None and "" are false
Truthy(v) == v # None /\ ~(IsStr(v) /\ v.s = <<>>)

\* a cleaning that leaves the blanks at both ends
clean_phone_Untrimmed(v) ==
    IF Truthy(v) THEN Str(SelectSeq(v.s, PhoneKept)) ELSE v

\* ContactInfo.clean_phone, the validator of phone
clean_phone(v) ==
    IF Truthy(v) THEN Str(Strip(SelectSeq(v.s, PhoneKept))) ELSE v

\* a normalization that does not look for '@'
validate_email_Always(v) ==
    IF Truthy(v) THEN Str(Strip(Lower(v.s))) ELSE v

\* ContactInfo.validate_email, the validator of email
validate_email(v) ==
    IF Truthy(v) /\ (\E i \in 1..Len(v.s) : v.s[i] = "@")
    THEN Str(Strip(Lower(v.s)))
    ELSE v

ContactInfoFields ==
    {"name", "email", "phone", "address", "city", "state", "postal_code",
     "country"}

NoContactInfo == [n \in ContactInfoFields |-> None]

\* ContactInfo(**m)
ContactInfo(m) ==
    Built([name |-> FieldStr(m.name),
           email |-> IF FieldStr(m.email) = ValidationError
                     THEN ValidationError
                     ELSE validate_email(m.email),
           phone |-> IF FieldStr(m.phone) = ValidationError
                     THEN ValidationError
                     ELSE clean_phone(m.phone),
           address |-> FieldStr(m.address),
           city |-> FieldStr(m.city),
           state |-> FieldStr(m.state),
           postal_code |-> FieldStr(m.postal_code),
           country |-> FieldStr(m.country)], ContactInfoFields)

----------------------------------------------------------------------------
(* A record built from the keywords of a mapping *)

\* the keywords **x gives a constructor, the fields not given defaulted
Keywords(x, fields) ==
    [n \in fields |-> IF n \in DOMAIN x.d THEN x.d[n] ELSE None]

\* C(**x) raises TypeError unless x is a mapping
DocumentInfoOf(x) ==
    IF x.t # "dict" THEN TypeError
    ELSE DocumentInfo(Keywords(x, DocumentInfoFields))

\* a constructor call that takes what is no mapping for an empty one
ContactInfoOf_Lenient(x) ==
    IF x.t # "dict" THEN ContactInfo(NoContactInfo)
    ELSE ContactInfo(Keywords(x, ContactInfoFields))

ContactInfoOf(x) ==
    IF x.t # "dict" THEN TypeError
    ELSE ContactInfo(Keywords(x, ContactInfoFields))

LineItemOf(x) ==
    IF x.t # "dict" THEN TypeError
    ELSE LineItem(Keywords(x, LineItemFields))

TaxInfoOf(x) ==
    IF x.t # "dict" THEN TypeError
    ELSE TaxInfo(Keywords(x, TaxInfoFields))

PaymentInfoOf(x) ==
    IF x.t # "dict" THEN TypeError
    ELSE PaymentInfo(Keywords(x, PaymentInfoFields))

----------------------------------------------------------------------------
(* StructuredDocument *)

StructuredDocumentFields ==
    {"document_info", "vendor", "customer", "line_items", "subtotal",
     "tax_info", "total_amount", "payment_info", "notes", "currency",
     "source_filename", "processed_at", "confidence_score"}

USD == <<"U", "S", "D">>

\* field defaults without a default currency
StructuredDocumentDefaults_NoCurrency(now) ==
    [document_info |-> DocumentInfo(NoDocumentInfo),
     vendor |-> ContactInfo(NoContactInfo),
     customer |-> ContactInfo(NoContactInfo),
     line_items |-> List(<<>>),
     subtotal |-> None,
     tax_info |-> TaxInfo(NoTaxInfo),
     total_amount |-> None,
     payment_info |-> PaymentInfo(NoPaymentInfo),
     notes |-> None,
     currency |-> None,
     source_filename |-> None,
     processed_at |-> Datetime(now),
     confidence_score |-> None]

\* the field defaults of StructuredDocument; processed_at defaults to
\* datetime.now(), the clock reading now
StructuredDocumentDefaults(now) ==
    [document_info |-> DocumentInfo(NoDocumentInfo),
     vendor |-> ContactInfo(NoContactInfo),
     customer |-> ContactInfo(NoContactInfo),
     line_items |-> List(<<>>),
     subtotal |-> None,
     tax_info |-> TaxInfo(NoTaxInfo),
     total_amount |-> None,
     payment_info |-> PaymentInfo(NoPaymentInfo),
     notes |-> None,
     currency |-> Str(USD),
     source_filename |-> None,
     processed_at |-> Datetime(now),
     confidence_score |-> None]

\* x is an instance of a record class (a value of the model is tagged by t,
\* a record built by a constructor has its fields only)
IsRecord(x) == "t" \notin DOMAIN x

\* a field of type DocumentInfo: an instance is stored, a mapping is
\* validated into one, anything else is rejected
FieldDocumentInfo(x) ==
    IF IsRecord(x) THEN x
    ELSE IF x.t = "dict" THEN DocumentInfoOf(x)
    ELSE ValidationError

\* a field of type ContactInfo
FieldContactInfo(x) ==
    IF IsRecord(x) THEN x
    ELSE IF x.t = "dict" THEN ContactInfoOf(x)
    ELSE ValidationError

\* a field of type TaxInfo
FieldTaxInfo(x) ==
    IF IsRecord(x) THEN x
    ELSE IF x.t = "dict" THEN TaxInfoOf(x)
    ELSE ValidationError

\* a field of type PaymentInfo
FieldPaymentInfo(x) ==
    IF IsRecord(x) THEN x
    ELSE IF x.t = "dict" THEN PaymentInfoOf(x)
    ELSE ValidationError

\* an element of List[LineItem]
FieldLineItem(x) ==
    IF IsRecord(x) THEN x
    ELSE IF x.t = "dict" THEN LineItemOf(x)
    ELSE ValidationError

\* List[LineItem]: a list whose every element is accepted
FieldLineItems(x) ==
    IF IsRecord(x) \/ x.t # "list" THEN ValidationError
    ELSE IF \E i \in 1..Len(x.l) : FieldLineItem(x.l[i]) = ValidationError
    THEN ValidationError
    ELSE List([i \in 1..Len(x.l) |-> FieldLineItem(x.l[i])])

\* Optional[datetime]
FieldDatetime(x) ==
    IF x.t \in {"None", "datetime"} THEN x ELSE ValidationError

\* StructuredDocument(**m), the keywords not given taken from the defaults
StructuredDocument(m) ==
    Built([document_info |-> FieldDocumentInfo(m.document_info),
           vendor |-> FieldContactInfo(m.vendor),
           customer |-> FieldContactInfo(m.customer),
           line_items |-> FieldLineItems(m.line_items),
           subtotal |-> FieldDecimal(parse_amounts(m.subtotal)),
           tax_info |-> FieldTaxInfo(m.tax_info),
           total_amount |-> FieldDecimal(parse_amounts(m.total_amount)),
           payment_info |-> FieldPaymentInfo(m.payment_info),
           notes |-> FieldStr(m.notes),
           currency |-> FieldStr(m.currency),
           source_filename |-> FieldStr(m.source_filename),
           processed_at |-> FieldDatetime(m.processed_at),
           confidence_score |-> FieldNumber(m.confidence_score)],
          StructuredDocumentFields)

\* StructuredDocument(**x) at the clock reading now: the keywords x does
\* not give are the field defaults
StructuredDocumentOf(x, now) ==
    IF x.t # "dict" THEN TypeError
    ELSE StructuredDocument(
             [n \in StructuredDocumentFields |->
                 IF n \in DOMAIN x.d THEN x.d[n]
                 ELSE StructuredDocumentDefaults(now)[n]])


----------------------------------------------------------------------------
(* Flattening: StructuredDocument.to_flat_dict and to_line_items_list *)

\* the value of a Decimal with the trailing zeros of its fraction dropped
RECURSIVE Normal(_, _)
Normal(coef, exp) ==
    IF coef = 0 THEN <<0, 0>>
    ELSE IF exp < 0 /\ coef % 10 = 0 THEN Normal(coef \div 10, exp + 1)
    ELSE <<coef, exp>>

\* float(x) of a Decimal
PyFloat(x) ==
    Float(x.neg, Normal(x.coef, x.exp)[1], Normal(x.coef, x.exp)[2])

\* an export that takes only None for false
FloatOrNone_ZeroKept(x) ==
    IF x = None THEN None ELSE PyFloat(x)

\* float(x) if x else None: None and a zero Decimal are false
FloatOrNone(x) ==
    IF x = None \/ x.coef = 0 THEN None ELSE PyFloat(x)

\* dict.update
Update(d, u) ==
    [k \in DOMAIN d \cup DOMAIN u |-> IF k \in DOMAIN u THEN u[k] ELSE d[k]]

\* the part of the flat dict to_flat_dict builds first
FlatDocumentPart(d) ==
    [document_type |-> d.document_info.document_type,
     document_number |-> d.document_info.document_number,
     document_date |-> d.document_info.document_date,
     reference_number |-> d.document_info.reference_number,
     vendor_name |-> d.vendor.name,
     vendor_email |-> d.vendor.email,
     vendor_phone |-> d.vendor.phone,
     vendor_address |-> d.vendor.address,
     vendor_city |-> d.vendor.city,
     vendor_state |-> d.vendor.state,
     vendor_postal_code |-> d.vendor.postal_code,
     vendor_country |-> d.vendor.country,
     customer_name |-> d.customer.name,
     customer_email |-> d.customer.email,
     customer_phone |-> d.customer.phone,
     customer_address |-> d.customer.address,
     customer_city |-> d.customer.city,
     customer_state |-> d.customer.state,
     customer_postal_code |-> d.customer.postal_code,
     customer_country |-> d.customer.country,
     subtotal |-> FloatOrNone(d.subtotal),
     tax_rate |-> d.tax_info.tax_rate,
     tax_amount |-> FloatOrNone(d.tax_info.tax_amount),
     tax_type |-> d.tax_info.tax_type,
     total_amount |-> FloatOrNone(d.total_amount),
     currency |-> d.currency,
     payment_method |-> d.payment_info.payment_method,
     payment_terms |-> d.payment_info.payment_terms,
     due_date |-> d.payment_info.due_date,
     paid_amount |-> FloatOrNone(d.payment_info.paid_amount),
     balance_due |-> FloatOrNone(d.payment_info.balance_due),
     notes |-> d.notes,
     source_filename |-> d.source_filename,
     processed_at |-> d.processed_at,
     confidence_score |-> d.confidence_score]

\* a flattening that takes the item keys of the document row from the last
\* line item
first_item_Last(d) == d.line_items.l[Len(d.line_items.l)]

\* first_item = self.line_items[0]
first_item(d) == d.line_items.l[1]

\* StructuredDocument.to_flat_dict
to_flat_dict(d) ==
    IF d.line_items.l # <<>>
    THEN Update(FlatDocumentPart(d),
            [item_name |-> first_item(d).item_name,
             quantity |-> first_item(d).quantity,
             unit_price |-> FloatOrNone(first_item(d).unit_price),
             item_total_price |-> FloatOrNone(first_item(d).total_price),
             item_code |-> first_item(d).item_code,
             item_category |-> first_item(d).category,
             total_line_items |-> IntVal(Len(d.line_items.l))])
    ELSE Update(FlatDocumentPart(d),
            [item_name |-> None,
             quantity |-> None,
             unit_price |-> None,
             item_total_price |-> None,
             item_code |-> None,
             item_category |-> None,
             total_line_items |-> IntVal(0)])

\* a row numbered by the index of enumerate itself, from 0
ItemRow_ZeroBased(base_dict, item, i) ==
    Update(base_dict,
        [item_name |-> item.item_name,
         quantity |-> item.quantity,
         unit_price |-> FloatOrNone(item.unit_price),
         item_total_price |-> FloatOrNone(item.total_price),
         item_code |-> item.item_code,
         item_category |-> item.category,
         line_item_number |-> IntVal(i)])

\* the row to_line_items_list makes of the item at index i of enumerate
ItemRow(base_dict, item, i) ==
    Update(base_dict,
        [item_name |-> item.item_name,
         quantity |-> item.quantity,
         unit_price |-> FloatOrNone(item.unit_price),
         item_total_price |-> FloatOrNone(item.total_price),
         item_code |-> item.item_code,
         item_category |-> item.category,
         line_item_number |-> IntVal(i + 1)])

\* a projection without the row of a document that has no line item
to_line_items_list_ItemsOnly(d) ==
    List([k \in 1..Len(d.line_items.l) |->
             ItemRow(to_flat_dict(d), d.line_items.l[k], k - 1)])

\* StructuredDocument.to_line_items_list
to_line_items_list(d) ==
    IF d.line_items.l = <<>>
    THEN List(<<to_flat_dict(d)>>)
    ELSE List([k \in 1..Len(d.line_items.l) |->
                  ItemRow(to_flat_dict(d), d.line_items.l[k], k - 1)])

\* a copy that is the mapping copied itself
dict_copy_Alias(base, fresh) == base

\* base_dict.copy(): a new mapping object, not the one copied
dict_copy(base, fresh) == fresh

\* the mapping objects of the list to_line_items_list returns, numbered in
\* the order the call creates them: 0 is what to_flat_dict() returned
\* (base_dict), k is the k-th copy made of it
RowObjects(d) ==
    IF d.line_items.l = <<>> THEN <<0>>
    ELSE [k \in 1..Len(d.line_items.l) |-> dict_copy(0, k)]

\* the list l of mappings after l[i][k] = v, ids telling which elements
\* are one and the same object
SetItem(l, ids, i, k, v) ==
    [j \in 1..Len(l) |->
        IF ids[j] = ids[i] THEN [l[j] EXCEPT ![k] = v] ELSE l[j]]

----------------------------------------------------------------------------
(* extract_structured_data: from the decoded response to the document *)

\* dict.get(k, default)
Get(d, k, default) == IF k \in DOMAIN d THEN d[k] ELSE default

IsError(x) == x \in {ValidationError, TypeError}

\* [LineItem(**item) for item in x]: the list, or what the first item that
\* cannot be built raises
LineItemsOf(x) ==
    CASE x.t = "list" ->
            LET bad == {i \in 1..Len(x.l) : IsError(LineItemOf(x.l[i]))}
            IN  IF bad = {}
                THEN List([i \in 1..Len(x.l) |-> LineItemOf(x.l[i])])
                ELSE LineItemOf(x.l[CHOOSE i \in bad : \A j \in bad : i <= j])
      [] x.t = "dict" /\ DOMAIN x.d = {} -> List(<<>>)
      [] x.t = "str" /\ x.s = <<>> -> List(<<>>)
      [] OTHER -> TypeError

JSONErrorNote == <<"J", "S", "O", "N", " ", "p", "a", "r", "s", "i", "n", "g", " ", "e", "r", "r", "o", "r", ":", " ">>

ExtractionErrorNote == <<"E", "x", "t", "r", "a", "c", "t", "i", "o", "n", " ", "e", "r", "r", "o", "r", ":", " ">>

\* an error document that does not say which image it is for
ErrorDocument_NoFilename(note, fname, now) ==
    StructuredDocument([StructuredDocumentDefaults(now) EXCEPT
        !.notes = Str(note),
        !.processed_at = Datetime(now)])

\* the empty document the except clauses return
ErrorDocument(note, fname, now) ==
    StructuredDocument([StructuredDocumentDefaults(now) EXCEPT
        !.source_filename = fname,
        !.notes = Str(note),
        !.processed_at = Datetime(now)])

\* the arguments of StructuredDocument(...) that are built by a call, in
\* the order they are evaluated
BuiltArguments ==
    <<"document_info", "vendor", "customer", "line_items", "tax_info",
      "payment_info">>

\* the keyword arguments of StructuredDocument(...) in the try block
ArgumentsOfData(data, fname, now) ==
    [document_info |->
         DocumentInfoOf(Get(data.d, "document_info", Dict(<<>>))),
     vendor |-> ContactInfoOf(Get(data.d, "vendor", Dict(<<>>))),
     customer |-> ContactInfoOf(Get(data.d, "customer", Dict(<<>>))),
     line_items |-> LineItemsOf(Get(data.d, "line_items", List(<<>>))),
     subtotal |-> Get(data.d, "subtotal", None),
     tax_info |-> TaxInfoOf(Get(data.d, "tax_info", Dict(<<>>))),
     total_amount |-> Get(data.d, "total_amount", None),
     payment_info |-> PaymentInfoOf(Get(data.d, "payment_info", Dict(<<>>))),
     notes |-> Get(data.d, "notes", None),
     currency |-> Get(data.d, "currency", Str(USD)),
     source_filename |-> fname,
     processed_at |-> Datetime(now),
     confidence_score |-> None]

\* the try block of extract_structured_data after json.loads: the document,
\* or what the first argument that cannot be built raises, or what
\* StructuredDocument raises
DocumentOfData(data, fname, now) ==
    IF data.t # "dict" THEN TypeError
    ELSE LET args == ArgumentsOfData(data, fname, now)
             bad == {i \in 1..Len(BuiltArguments) :
                        IsError(args[BuiltArguments[i]])}
         IN  IF bad = {} THEN StructuredDocument(args)
             ELSE args[BuiltArguments[CHOOSE i \in bad : \A j \in bad : i <= j]]

\* the exception the try block raises: the one json.loads or a constructor
\* raised, None if the block returned structured_doc
Raised(resp, fname, now) ==
    IF resp \in {InvalidJSON, APIError} THEN resp
    ELSE IF DocumentOfData(resp, fname, now) \in {ValidationError, TypeError}
    THEN DocumentOfData(resp, fname, now)
    ELSE None

\* StructuredDocumentOCR.extract_structured_data, given the response
extract_structured_data(resp, fname, now) ==
    IF resp = InvalidJSON THEN ErrorDocument(JSONErrorNote, fname, now)
    ELSE IF resp = APIError \/ IsError(DocumentOfData(resp, fname, now))
    THEN ErrorDocument(ExtractionErrorNote, fname, now)
    ELSE DocumentOfData(resp, fname, now)

----------------------------------------------------------------------------
(* process_single_image, process_all_images and save_to_csv *)

ProcessingErrorNote == <<"P", "r", "o", "c", "e", "s", "s", "i", "n", "g", " ", "e", "r", "r", "o", "r", ":", " ">>

\* a process_single_image without its except clause: what is raised while
\* the image is loaded or a client is built leaves the function
process_single_image_Unhandled(image, now) ==
    IF image.fail \in {"open", "client"}
    THEN APIError
    ELSE extract_structured_data(
             IF image.fail = "invoke" THEN APIError ELSE image.response,
             image.name, now)

\* process_single_image for an image with the given fate: fail says what
\* fails ("open": loading or preprocessing the image raises; "client":
\* building the client of a model raises; "recognition": the vision model
\* fails, and extract_raw_text returns its error text; "invoke": the
\* extraction model fails), response is the extraction model's answer
process_single_image(image, now) ==
    IF image.fail \in {"open", "client"}
    THEN ErrorDocument(ProcessingErrorNote, image.name, now)
    ELSE extract_structured_data(
             IF image.fail = "invoke" THEN APIError ELSE image.response,
             image.name, now)

\* the rows save_to_csv makes of one document
RowsOfDocument(d) ==
    IF d.line_items.l # <<>> THEN to_line_items_list(d).l
    ELSE <<to_flat_dict(d)>>

\* all_items of save_to_csv after the loop over documents
RECURSIVE AllItems(_)
AllItems(documents) ==
    IF documents = <<>> THEN <<>>
    ELSE RowsOfDocument(Head(documents)) \o AllItems(Tail(documents))

----------------------------------------------------------------------------
(* save_results: doc.model_dump() written by json.dump(..., default=str) *)

\* str(n) of an int n >= 0
RECURSIVE IntStr(_)
IntStr(n) ==
    LET c == CHOOSE x \in Digits : DigitVal(x) = n % 10
    IN  IF n < 10 THEN <<c>> ELSE IntStr(n \div 10) \o <<c>>

\* s padded with zeros on the left to the width w
RECURSIVE ZeroPad(_, _)
ZeroPad(s, w) == IF Len(s) >= w THEN s ELSE ZeroPad(<<"0">> \o s, w)

\* str(x) of a Decimal with exponent <= 0: plain notation if the adjusted
\* exponent is at least -6, else scientific notation
DecimalStr(x) ==
    LET digs == IntStr(x.coef)
        sign == IF x.neg THEN <<"-">> ELSE <<>>
        adjusted == x.exp + Len(digs) - 1
        padded == ZeroPad(digs, 1 - x.exp)
        int == SubSeq(padded, 1, Len(padded) + x.exp)
        frac == SubSeq(padded, Len(padded) + x.exp + 1, Len(padded))
    IN  IF adjusted >= -6
        THEN sign \o int \o (IF x.exp = 0 THEN <<>> ELSE <<".">> \o frac)
        ELSE sign \o <<Head(digs)>>
                  \o (IF Len(digs) > 1 THEN <<".">> \o Tail(digs) ELSE <<>>)
                  \o <<"E", "-">> \o IntStr(0 - adjusted)

\* str(x) of a date: date.isoformat()
DateStr(x) ==
    ZeroPad(IntStr(x.y), 4) \o <<"-">> \o ZeroPad(IntStr(x.m), 2)
        \o <<"-">> \o ZeroPad(IntStr(x.d), 2)

\* what json.dump writes for a value: default=str for what JSON has no
\* notation for
JsonValue(x) ==
    CASE x.t = "Decimal" -> Str(DecimalStr(x))
      [] x.t = "date" -> Str(DateStr(x))
      [] x.t = "datetime" -> Str(<<"T">> \o IntStr(x.n))
      [] OTHER -> x

JsonRecord(r) == Dict([n \in DOMAIN r |-> JsonValue(r[n])])

\* json.dump(doc.model_dump(), default=str), read back by json.load
JsonDocument(d) ==
    Dict([n \in StructuredDocumentFields |->
        CASE n \in {"document_info", "vendor", "customer", "tax_info",
                    "payment_info"} -> JsonRecord(d[n])
          [] n = "line_items" ->
                List([i \in 1..Len(d.line_items.l) |->
                         JsonRecord(d.line_items.l[i])])
          [] OTHER -> JsonValue(d[n])])

\* the Entity Records (and the document's own amounts) built again from the
\* mapping, each by the constructor extract_structured_data uses
Reconstruct(j) ==
    [document_info |-> DocumentInfoOf(j.d.document_info),
     vendor |-> ContactInfoOf(j.d.vendor),
     customer |-> ContactInfoOf(j.d.customer),
     line_items |-> LineItemsOf(j.d.line_items),
     subtotal |-> FieldDecimal(parse_amounts(j.d.subtotal)),
     tax_info |-> TaxInfoOf(j.d.tax_info),
     total_amount |-> FieldDecimal(parse_amounts(j.d.total_amount)),
     payment_info |-> PaymentInfoOf(j.d.payment_info)]

----------------------------------------------------------------------------
(* The raw values a field is given *)

MaxLen == 3

Alphabet == {"1", "2", ".", ",", "-", "$", "a"}

\* every text over Alphabet of at most MaxLen characters
ShortTexts == UNION {[1..k -> Alphabet] : k \in 0..MaxLen}

AmountExamples ==
    {<<"$", "1", ",", "2", "3", "4", ".", "5", "6">>,
     <<"U", "S", "D", " ", "1", "2", "3", "4", ".", "5", "6">>,
     <<" ", " ", "-", " ", "1", "2", ".", "0", "0", " ">>,
     <<"N", "/", "A">>,
     <<"a", "s", "k", " ", "c", "a", "s", "h", "i", "e", "r">>,
     <<"1", "-", "2">>}

AmountInputs ==
    {None, Num(FALSE, 5, 0), Num(FALSE, 1250, -2), Num(TRUE, 3, 0),
     Dec(FALSE, 1250, -2)}
    \cup {Str(s) : s \in ShortTexts \cup AmountExamples}

DateSegments ==
    {<<"3">>,
     <<"0", "3">>,
     <<"1", "2">>,
     <<"1", "5">>,
     <<"2", "9">>,
     <<"0", "2">>,
     <<"2", "4">>,
     <<"7", "6">>,
     <<"2", "0", "2", "4">>,
     <<"2", "0", "2", "3">>,
     <<"0", "0", "0", "5">>}

DatePrefixes == {<<>>, <<"x">>, <<"2">>}

DateSeparators == {"/", "-"}

\* texts made of three runs of digits and two separators, after a prefix
DateTexts ==
    {p \o a \o <<x>> \o b \o <<y>> \o c :
        p \in DatePrefixes, a \in DateSegments, b \in DateSegments,
        c \in DateSegments, x \in DateSeparators, y \in DateSeparators}

OtherTexts ==
    {<<"a", "s", "k">>,
     <<"M", "a", "r", "c", "h", " ", "1", "5">>,
     <<"n", "o", " ", "d", "a", "t", "e">>}

DateInputs ==
    {None, Date(2024, 3, 15)} \cup {Str(s) : s \in DateTexts \cup OtherTexts}

MaxTick == 2

\* the readings of datetime.now()
Ticks == 1..MaxTick

PhoneAlphabet == {"5", "+", "(", " ", "x", "-"}

PhoneExamples ==
    {<<"+", "1", " ", "(", "5", "5", "5", ")", " ", "1", "2", "3", "-", "4", "5", "6", "7", " ", "e", "x", "t", ".", "9">>,
     <<" ", "(", "5", ")", " ", "5", "-", "5", " ", "x", "5", " ">>,
     <<"e", "x", "t">>}

\* what a mapping gives for phone
PhoneInputs ==
    {None}
    \cup {Str(s) : s \in UNION {[1..k -> PhoneAlphabet] : k \in 0..MaxLen}}
    \cup {Str(s) : s \in PhoneExamples}

EmailAlphabet == {"A", "b", "@", " ", "Z"}

EmailExamples ==
    {<<" ", "J", "o", "h", "n", "@", "E", "x", "a", "m", "p", "l", "e", ".", "C", "O", "M", " ">>,
     <<"J", "o", "h", "n", " ", "E", "x", "a", "m", "p", "l", "e">>,
     <<"@">>}

\* what a mapping gives for email
EmailInputs ==
    {None}
    \cup {Str(s) : s \in UNION {[1..k -> EmailAlphabet] : k \in 0..MaxLen}}
    \cup {Str(s) : s \in EmailExamples}

\* a keyword the mapping does not give
Missing == [t |-> "missing"]

\* for each keyword of StructuredDocument, what a mapping gives for it, if
\* it gives it: well-shaped values and values of the wrong shape
DocumentKeywordChoices ==
    [currency : {Missing, Str(<<"E", "U", "R">>)},
     notes : {Missing, Str(<<"n">>)},
     subtotal : {Missing, Str(<<"$", "1", ",", "2", "3", "4", ".", "5", "6">>)},
     processed_at : {Missing, Datetime(0)},
     document_info :
        {Missing, Dict([document_number |-> Str(<<"7">>)]), List(<<>>)},
     vendor :
        {Missing, Dict([name |-> Str(<<"a">>), phone |-> Str(<<"5", "x">>)]),
         Str(<<"a", "b", "c">>), None},
     line_items :
        {Missing, List(<<>>),
         List(<<Dict([item_name |-> Str(<<"a">>),
                      unit_price |-> Str(<<"$", "2">>)])>>),
         List(<<Str(<<"x">>)>>), Str(<<"a", "b">>)},
     tax_info : {Missing, Num(FALSE, 5, 0)},
     payment_info :
        {Missing, Dict([payment_method |-> Str(<<"c", "a", "s", "h">>)])}]

\* the mapping of the keywords c gives
GivenKeywords(c) ==
    Dict([k \in {n \in DOMAIN c : c[n] # Missing} |-> c[k]])

\* the mappings StructuredDocument is built from
DocumentInputs == {GivenKeywords(c) : c \in DocumentKeywordChoices}

----------------------------------------------------------------------------
(* Building one record from a mapping that gives one field *)

Init ==
    /\ raw \in AmountInputs \cup DateInputs \cup PhoneInputs \cup EmailInputs
               \cup DocumentInputs
    /\ op = "init"
    /\ fld = "none"
    /\ ret = Unset
    /\ rec = Unset
    /\ again = Unset
    /\ response = Unset
    /\ filename = Unset
    /\ raised = Unset
    /\ doc = Unset
    /\ flat = Unset
    /\ rows = Unset
    /\ row_ids = Unset
    /\ written = Unset
    /\ dump = Unset
    /\ rebuilt = Unset
    /\ images = Unset
    /\ results = Unset
    /\ all_items = Unset
    /\ summary = Unset
    /\ split = Unset
    /\ height = Unset
    /\ sections = Unset
    /\ overlap = Unset
    /\ sections_list = Unset

\* LineItem(**{f: raw})
ConstructLineItem ==
    /\ op = "init"
    /\ raw \in AmountInputs
    /\ \E f \in {"unit_price", "total_price"} :
          /\ fld' = f
          /\ rec' = LineItem([NoLineItem EXCEPT ![f] = raw])
    /\ op' = "LineItem"
    /\ ret' = parse_price(raw)
    /\ UNCHANGED <<raw, again, docvars, batchvars, splitvars>>

\* TaxInfo(tax_amount=raw)
ConstructTaxInfo ==
    /\ op = "init"
    /\ raw \in AmountInputs
    /\ op' = "TaxInfo"
    /\ fld' = "tax_amount"
    /\ ret' = parse_tax_amount(raw)
    /\ rec' = TaxInfo([NoTaxInfo EXCEPT !.tax_amount = raw])
    /\ UNCHANGED <<raw, again, docvars, batchvars, splitvars>>

\* PaymentInfo(**{f: raw})
ConstructPaymentInfo ==
    /\ op = "init"
    /\ raw \in AmountInputs
    /\ \E f \in {"paid_amount", "balance_due"} :
          /\ fld' = f
          /\ rec' = PaymentInfo([NoPaymentInfo EXCEPT ![f] = raw])
    /\ op' = "PaymentInfo"
    /\ ret' = parse_amount(raw)
    /\ UNCHANGED <<raw, again, docvars, batchvars, splitvars>>

\* DocumentInfo(document_date=raw)
ConstructDocumentInfo ==
    /\ op = "init"
    /\ raw \in DateInputs
    /\ op' = "DocumentInfo"
    /\ fld' = "document_date"
    /\ ret' = parse_date(raw)
    /\ rec' = DocumentInfo([NoDocumentInfo EXCEPT !.document_date = raw])
    /\ UNCHANGED <<raw, again, docvars, batchvars, splitvars>>

\* ContactInfo(phone=raw)
ConstructContactInfoPhone ==
    /\ op = "init"
    /\ raw \in PhoneInputs
    /\ op' = "ContactInfo"
    /\ fld' = "phone"
    /\ ret' = clean_phone(raw)
    /\ rec' = ContactInfo([NoContactInfo EXCEPT !.phone = raw])
    /\ UNCHANGED <<raw, again, docvars, batchvars, splitvars>>

\* ContactInfo(email=raw)
ConstructContactInfoEmail ==
    /\ op = "init"
    /\ raw \in EmailInputs
    /\ op' = "ContactInfo"
    /\ fld' = "email"
    /\ ret' = validate_email(raw)
    /\ rec' = ContactInfo([NoContactInfo EXCEPT !.email = raw])
    /\ UNCHANGED <<raw, again, docvars, batchvars, splitvars>>

\* StructuredDocument(**raw), the clock reading now
ConstructStructuredDocument ==
    /\ op = "init"
    /\ raw \in DocumentInputs
    /\ op' = "StructuredDocument"
    /\ \E now \in Ticks : rec' = StructuredDocumentOf(raw, now)
    /\ UNCHANGED <<raw, fld, ret, again, docvars, batchvars, splitvars>>

\* StructuredDocument(**{f: raw}), the clock reading now
ConstructStructuredDocumentAmount ==
    /\ op = "init"
    /\ raw \in AmountInputs
    /\ \E f \in {"subtotal", "total_amount"} :
          /\ fld' = f
          /\ \E now \in Ticks :
                rec' = StructuredDocumentOf(Dict([k \in {f} |-> raw]), now)
    /\ op' = "StructuredDocumentAmount"
    /\ ret' = parse_amounts(raw)
    /\ UNCHANGED <<raw, again, docvars, batchvars, splitvars>>

\* StructuredDocument(**raw) a second time, the clock reading now
ConstructStructuredDocumentAgain ==
    /\ op = "StructuredDocument"
    /\ again = Unset
    /\ \E now \in Ticks : again' = StructuredDocumentOf(raw, now)
    /\ UNCHANGED <<raw, op, fld, ret, rec, docvars, batchvars, splitvars>>

Next ==
    \/ ConstructLineItem
    \/ ConstructTaxInfo
    \/ ConstructPaymentInfo
    \/ ConstructDocumentInfo
    \/ ConstructContactInfoPhone
    \/ ConstructContactInfoEmail
    \/ ConstructStructuredDocument
    \/ ConstructStructuredDocumentAmount
    \/ ConstructStructuredDocumentAgain

Spec == Init /\ [][Next]_vars

----------------------------------------------------------------------------
(* The pipeline for one image: extraction, flattening, saving *)

MaxItems == 2

\* line items as the extraction model writes them
ItemPayloads ==
    {Dict([item_name |-> Str(<<"a">>), quantity |-> Num(FALSE, 2, 0),
           unit_price |-> Str(<<"$", "1", ".", "5", "0">>), total_price |-> Num(FALSE, 3, 0),
           item_code |-> Str(<<"k", "1">>)]),
     Dict([item_name |-> Str(<<"b">>), unit_price |-> Num(FALSE, 0, 0),
           total_price |-> Str(<<"2">>), category |-> Str(<<"c">>)]),
     Dict([item_name |-> Str(<<"c">>), unit_price |-> Str(<<"a", "s", "k">>)]),
     Dict([quantity |-> Num(FALSE, 15, -1), total_price |-> Str(<<"-", "1", ",", "0", "0", "0", ".", "0", "0">>)])}

ItemLists == UNION {[1..k -> ItemPayloads] : k \in 0..MaxItems}

DocumentInfoPayloads ==
    {Dict([document_type |-> Str(<<"i", "n", "v", "o", "i", "c", "e">>), document_date |-> Str(<<"0", "3", "/", "1", "5", "/", "2", "0", "2", "4">>)]),
     Dict([document_date |-> Str(<<"2", "0", "2", "4", "-", "0", "3", "-", "1", "5">>), document_number |-> Str(<<"7">>)]),
     Dict([document_date |-> Str(<<"0", "3", "/", "1", "5", "/", "2", "4">>)])}

SubtotalPayloads ==
    {Num(FALSE, 0, 0), Str(<<"$", "1", ",", "2", "3", "4", ".", "5", "6">>), Str(<<"0", ".", "0", "0", "0", "0", "0", "0", "1">>)}

VendorPayloads ==
    {Dict([name |-> Str(<<"a">>),
           phone |-> Str(<<"+", "1", " ", "(", "5", "5", "5", ")", " ", "1",
                           "-", "2", " ", "x", "9">>),
           email |-> Str(<<" ", "A", "@", "b", ".", "C", " ">>)])}

\* the decoded mapping with the keys of ks, each from its payloads
DataOf(ks, items, info, sub, ven) ==
    Dict([k \in ks |->
        CASE k = "line_items" -> List(items)
          [] k = "document_info" -> info
          [] k = "subtotal" -> sub
          [] k = "vendor" -> ven])

\* the amounts of the totals block as the extraction model writes them
TotalsPayloads ==
    {[tax_info |-> Dict([tax_rate |-> Num(FALSE, 85, -1),
                         tax_amount |-> Str(<<"0", ".", "0", "0">>)]),
      total_amount |-> Str(<<"$", "1", "0", ".", "5", "0">>),
      payment_info |-> Dict([paid_amount |-> Num(FALSE, 105, -1),
                             balance_due |-> Num(FALSE, 0, 0)])],
     [tax_info |-> Dict([tax_amount |-> Num(FALSE, 84, -2),
                         tax_type |-> Str(<<"V", "A", "T">>)]),
      total_amount |-> Num(FALSE, 0, 0),
      payment_info |-> Dict([paid_amount |-> Str(<<"0">>),
                             balance_due |-> Str(<<"-", "2", ".", "5">>)])]}

\* the decoded mapping with line items, a subtotal and the totals block
DataWithTotals(items, sub, tot) ==
    Dict([line_items |-> List(items),
          subtotal |-> sub,
          tax_info |-> tot.tax_info,
          total_amount |-> tot.total_amount,
          payment_info |-> tot.payment_info])

\* the name of the vendor of the mappings with a section of the wrong shape
GoodVendor == Dict([name |-> Str(<<"a">>)])

\* decoded mappings in which one section does not have the shape the
\* prompt asks for
WrongShapedData ==
    {Dict([vendor |-> GoodVendor, document_info |-> List(<<>>)]),
     Dict([vendor |-> Str(<<"a", "b", "c">>)]),
     Dict([vendor |-> GoodVendor, customer |-> Num(FALSE, 5, 0)]),
     Dict([vendor |-> GoodVendor, tax_info |-> Str(<<"8", "%">>)]),
     Dict([vendor |-> GoodVendor, payment_info |-> List(<<Str(<<"x">>)>>)]),
     Dict([vendor |-> GoodVendor, line_items |-> Str(<<"a", "b">>)]),
     Dict([vendor |-> GoodVendor, line_items |-> List(<<Str(<<"x">>)>>)]),
     Dict([vendor |-> GoodVendor, line_items |-> Num(FALSE, 2, 0)]),
     Dict([vendor |-> GoodVendor, line_items |-> Str(<<>>)]),
     Dict([vendor |-> GoodVendor, line_items |-> Dict(<<>>)])}

\* the keys the prompt names that the model may answer with null
NullableKeys ==
    {"document_info", "vendor", "customer", "line_items", "tax_info",
     "payment_info", "currency", "subtotal", "notes"}

\* decoded mappings in which one key is present with the value null, the
\* customer and a total being given
NullData ==
    {Dict([n \in {"customer", "total_amount", k} |->
              CASE n = k -> None
                [] n = "customer" -> GoodVendor
                [] OTHER -> Num(FALSE, 5, 0)]) : k \in NullableKeys}

Responses ==
    {InvalidJSON}
    \cup WrongShapedData
    \cup NullData
    \cup {DataWithTotals(items, sub, tot) :
            items \in ItemLists, sub \in SubtotalPayloads,
            tot \in TotalsPayloads}
    \cup {DataOf(ks \cup {"line_items"}, items, info, sub, ven) :
            ks \in SUBSET {"document_info", "subtotal", "vendor"},
            items \in ItemLists, info \in DocumentInfoPayloads,
            sub \in SubtotalPayloads, ven \in VendorPayloads}
    \cup {DataOf(ks, <<>>, info, sub, ven) :
            ks \in SUBSET {"document_info", "subtotal", "vendor"},
            info \in DocumentInfoPayloads,
            sub \in SubtotalPayloads, ven \in VendorPayloads}

Filenames == {Str(<<"a", ".", "p", "n", "g">>), Str(<<"b", ".", "p", "n", "g">>)}

InitDoc ==
    /\ raw = Unset
    /\ op = "init"
    /\ fld = "none"
    /\ ret = Unset
    /\ rec = Unset
    /\ again = Unset
    /\ response \in Responses
    /\ filename \in Filenames
    /\ raised = Unset
    /\ doc = Unset
    /\ flat = Unset
    /\ rows = Unset
    /\ row_ids = Unset
    /\ written = Unset
    /\ dump = Unset
    /\ rebuilt = Unset
    /\ images = Unset
    /\ results = Unset
    /\ all_items = Unset
    /\ summary = Unset
    /\ split = Unset
    /\ height = Unset
    /\ sections = Unset
    /\ overlap = Unset
    /\ sections_list = Unset

\* doc = extract_structured_data(raw_text, filename), the model having
\* answered with response
ExtractStructuredData ==
    /\ doc = Unset
    /\ \E now \in Ticks :
          /\ doc' = extract_structured_data(response, filename, now)
          /\ raised' = Raised(response, filename, now)
    /\ UNCHANGED <<fieldvars, batchvars, splitvars, response, filename, flat, rows,
                   row_ids, written, dump, rebuilt>>

\* doc.to_flat_dict()
ToFlatDict ==
    /\ doc # Unset
    /\ flat' = to_flat_dict(doc)
    /\ UNCHANGED <<fieldvars, batchvars, splitvars, response, filename, raised,
                   doc, rows, row_ids, written, dump, rebuilt>>

\* doc.to_line_items_list()
ToLineItemsList ==
    /\ doc # Unset
    /\ rows' = to_line_items_list(doc)
    /\ row_ids' = RowObjects(doc)
    /\ written' = Unset
    /\ UNCHANGED <<fieldvars, batchvars, splitvars, response, filename, raised,
                   doc, flat, dump, rebuilt>>

\* save_results writes the JSON file of doc
SaveResults ==
    /\ doc # Unset
    /\ dump' = JsonDocument(doc)
    /\ UNCHANGED <<fieldvars, batchvars, splitvars, response, filename, raised,
                   doc, flat, rows, row_ids, written, rebuilt>>

\* the records are built again from the JSON file
LoadResults ==
    /\ dump # Unset
    /\ rebuilt' = Reconstruct(dump)
    /\ UNCHANGED <<fieldvars, batchvars, splitvars, response, filename, raised,
                   doc, flat, rows, row_ids, written, dump>>

\* the keys a caller assigns to
WrittenKeys == {"notes", "item_name"}

\* a caller assigns to a key of one of the rows it was returned:
\* rows[i][k] = "changed"
SetRowKey ==
    /\ rows # Unset
    /\ written = Unset
    /\ \E i \in 1..Len(rows.l), k \in WrittenKeys :
          /\ rows' = List(SetItem(rows.l, row_ids, i, k,
                                  Str(<<"c", "h", "a", "n", "g", "e", "d">>)))
          /\ written' = [i |-> i, k |-> k]
    /\ UNCHANGED <<fieldvars, batchvars, splitvars, response, filename, raised,
                   doc, flat, row_ids, dump, rebuilt>>

NextDoc ==
    \/ ExtractStructuredData
    \/ ToFlatDict
    \/ ToLineItemsList
    \/ SaveResults
    \/ LoadResults

SpecDoc == InitDoc /\ [][NextDoc]_vars

----------------------------------------------------------------------------
(* Flattening one document again and again, the caller writing to the rows *)

\* answers with no, one and more line items, and an answer that is no JSON
FlatResponses ==
    {InvalidJSON}
    \cup {Dict([vendor |-> GoodVendor, notes |-> Str(<<"n">>),
               line_items |-> List(items)]) : items \in ItemLists}

InitFlat ==
    /\ raw = Unset
    /\ op = "init"
    /\ fld = "none"
    /\ ret = Unset
    /\ rec = Unset
    /\ again = Unset
    /\ response \in FlatResponses
    /\ filename \in Filenames
    /\ raised = Unset
    /\ doc = Unset
    /\ flat = Unset
    /\ rows = Unset
    /\ row_ids = Unset
    /\ written = Unset
    /\ dump = Unset
    /\ rebuilt = Unset
    /\ images = Unset
    /\ results = Unset
    /\ all_items = Unset
    /\ summary = Unset
    /\ split = Unset
    /\ height = Unset
    /\ sections = Unset
    /\ overlap = Unset
    /\ sections_list = Unset

NextFlat ==
    \/ ExtractStructuredData
    \/ ToFlatDict
    \/ ToLineItemsList
    \/ SetRowKey

SpecFlat == InitFlat /\ [][NextFlat]_vars

----------------------------------------------------------------------------
(* The batch: process_all_images over the images of the input directory,   *)
(* then save_to_csv                                                         *)

MaxImages == 2

\* the answers of the extraction model in a batch
BatchResponses ==
    {InvalidJSON,
     Dict([vendor |-> GoodVendor,
           line_items |-> List(<<Dict([item_name |-> Str(<<"a">>),
                                       unit_price |-> Num(FALSE, 15, -1)]),
                                 Dict([item_name |-> Str(<<"b">>)])>>)]),
     Dict([vendor |-> GoodVendor, subtotal |-> Num(FALSE, 5, 0)]),
     Dict([vendor |-> GoodVendor,
           line_items |-> List(<<Dict([item_name |-> Str(<<"c">>),
                                       unit_price |-> Str(<<"a", "s", "k">>)])>>)]),
     Dict([vendor |-> Str(<<"a", "b", "c">>)])}

\* what can happen to one image
ImageFates ==
    {[fail |-> f, response |-> None] : f \in {"open", "client", "invoke"}}
    \cup {[fail |-> f, response |-> r] :
             f \in {"none", "recognition"}, r \in BatchResponses}

\* the name of the i-th file of the input directory
ImageName(i) == Str(IntStr(i) \o <<".", "p", "n", "g">>)

\* image_files: the images of the directory, each with its name and fate
ImageLists ==
    {[i \in 1..Len(fates) |->
         [name |-> ImageName(i), fail |-> fates[i].fail,
          response |-> fates[i].response]] :
        fates \in UNION {[1..k -> ImageFates] : k \in 0..MaxImages}}

InitBatch ==
    /\ raw = Unset
    /\ op = "init"
    /\ fld = "none"
    /\ ret = Unset
    /\ rec = Unset
    /\ again = Unset
    /\ response = Unset
    /\ filename = Unset
    /\ raised = Unset
    /\ doc = Unset
    /\ flat = Unset
    /\ rows = Unset
    /\ row_ids = Unset
    /\ written = Unset
    /\ dump = Unset
    /\ rebuilt = Unset
    /\ images \in {List(l) : l \in ImageLists}
    /\ results = List(<<>>)
    /\ all_items = Unset
    /\ summary = Unset
    /\ split = Unset
    /\ height = Unset
    /\ sections = Unset
    /\ overlap = Unset
    /\ sections_list = Unset

\* results after results.append(result); a result that is an exception
\* raised by process_single_image takes the place of the list
Appended(l, result) ==
    IF IsRecord(result) THEN List(Append(l, result)) ELSE result

\* one turn of the loop of process_all_images:
\* result = process_single_image(image_file); results.append(result).
\* An exception that left process_single_image would leave the loop and
\* process_all_images too: results is then that exception
ProcessNextImage ==
    /\ results.t = "list"
    /\ Len(results.l) < Len(images.l)
    /\ \E now \in Ticks :
          results' = Appended(results.l,
                         process_single_image(images.l[Len(results.l) + 1], now))
    /\ UNCHANGED <<fieldvars, docvars, splitvars, images, all_items, summary>>

\* save_to_csv(documents) with what process_all_images returned
SaveToCsv ==
    /\ results.t = "list"
    /\ Len(results.l) = Len(images.l)
    /\ results.l # <<>>
    /\ all_items = Unset
    /\ all_items' = List(AllItems(results.l))
    /\ UNCHANGED <<fieldvars, docvars, splitvars, images, results, summary>>

\* s.startswith(p)
StartsWith(s, p) == Len(s) >= Len(p) /\ SubSeq(s, 1, Len(p)) = p

\* the filter of the generator in main raises for this document:
\* doc.notes.startswith is looked up on None
FilterRaises(d) == Truthy(d.source_filename) /\ d.notes = None

\* doc.source_filename and not doc.notes.startswith("Error")
FilterHolds(d) ==
    /\ Truthy(d.source_filename)
    /\ ~StartsWith(d.notes.s, <<"E", "r", "r", "o", "r">>)

\* sum(1 for doc in documents if ...), no document making the filter raise
RECURSIVE Successful(_)
Successful(documents) ==
    IF documents = <<>> THEN 0
    ELSE (IF FilterHolds(Head(documents)) THEN 1 ELSE 0)
         + Successful(Tail(documents))

\* successful and failed of main, or the AttributeError that leaves the
\* sum for the except clause of main
SummaryOf(documents) ==
    IF \E i \in 1..Len(documents) : FilterRaises(documents[i])
    THEN AttributeError
    ELSE [successful |-> Successful(documents),
          failed |-> Len(documents) - Successful(documents)]

\* main after save_results: the summary is counted
Summary ==
    /\ results.t = "list"
    /\ Len(results.l) = Len(images.l)
    /\ all_items # Unset \/ results.l = <<>>
    /\ summary = Unset
    /\ summary' = SummaryOf(results.l)
    /\ UNCHANGED <<fieldvars, docvars, splitvars, images, results, all_items>>

NextBatch ==
    \/ ProcessNextImage
    \/ SaveToCsv
    \/ Summary

SpecBatch == InitBatch /\ [][NextBatch]_vars

----------------------------------------------------------------------------
(* Splitting an image into horizontal sections: split_image_into_sections  *)
(* of src/handwritten_ocr.py and adaptive_split of src/ocr_utils.py        *)

Max(a, b) == IF a >= b THEN a ELSE b

Min(a, b) == IF a <= b THEN a ELSE b

\* section_height = height // sections
section_height(h, n) == h \div n

\* overlap_height = int(section_height * overlap), the overlap given in
\* hundredths (0.15 is 15): the product truncated
overlap_height(sh, pct) == (sh * pct) \div 100

\* the box of image.crop((0, upper, width, lower)) at turn i of the loop:
\* it takes the pixel rows upper .. lower - 1
CropBox(i, h, n, pct) ==
    [upper |-> Max(i * section_height(h, n)
                     - overlap_height(section_height(h, n), pct), 0),
     lower |-> Min((i + 1) * section_height(h, n)
                     + overlap_height(section_height(h, n), pct), h)]

\* the number of sections adaptive_split chooses for the height h
AdaptiveSections(h, min_sections, max_sections) ==
    IF h < 800 THEN min_sections
    ELSE IF h < 1600 THEN 3
    ELSE IF h < 2400 THEN 4
    ELSE max_sections

\* overlap = 0.15 if sections <= 3 else 0.2
AdaptiveOverlap(n) == IF n <= 3 THEN 15 ELSE 20

MaxHeight == 40

MaxSections == 6

\* small images, and images around the heights at which adaptive_split
\* changes the number of sections
Heights == (1..MaxHeight) \cup {799, 800, 1599, 1600, 2399, 2400}

\* the overlap fractions of the callers: the default 0.15 and the 0.2 of
\* process_single_image
Overlaps == {15, 20}

InitSplit ==
    /\ raw = Unset
    /\ op = "init"
    /\ fld = "none"
    /\ ret = Unset
    /\ rec = Unset
    /\ again = Unset
    /\ response = Unset
    /\ filename = Unset
    /\ raised = Unset
    /\ doc = Unset
    /\ flat = Unset
    /\ rows = Unset
    /\ row_ids = Unset
    /\ written = Unset
    /\ dump = Unset
    /\ rebuilt = Unset
    /\ images = Unset
    /\ results = Unset
    /\ all_items = Unset
    /\ summary = Unset
    /\ split \in {"split_image_into_sections", "adaptive_split"}
    /\ height \in Heights
    /\ IF split = "adaptive_split"
       THEN /\ sections = AdaptiveSections(height, 2, 6)
            /\ overlap = AdaptiveOverlap(sections)
       ELSE /\ sections \in 1..MaxSections
            /\ overlap \in Overlaps
    /\ sections_list = List(<<>>)

\* one turn of the loop of split_image_into_sections
SplitImageIntoSections ==
    /\ split = "split_image_into_sections"
    /\ Len(sections_list.l) < sections
    /\ sections_list' =
          List(Append(sections_list.l,
                      CropBox(Len(sections_list.l), height, sections,
                              overlap)))
    /\ UNCHANGED <<fieldvars, docvars, batchvars, split, height, sections,
                   overlap>>

\* one turn of the loop of adaptive_split
AdaptiveSplit ==
    /\ split = "adaptive_split"
    /\ Len(sections_list.l) < sections
    /\ sections_list' =
          List(Append(sections_list.l,
                      CropBox(Len(sections_list.l), height, sections,
                              overlap)))
    /\ UNCHANGED <<fieldvars, docvars, batchvars, split, height, sections,
                   overlap>>

NextSplit ==
    \/ SplitImageIntoSections
    \/ AdaptiveSplit

SpecSplit == InitSplit /\ [][NextSplit]_vars

----------------------------------------------------------------------------
(* Claims about the field coercions *)

AmountOps ==
    {"LineItem", "TaxInfo", "PaymentInfo", "StructuredDocumentAmount"}

HasDigit(s) == \E i \in 1..Len(s) : IsDigit(s[i])

RECURSIVE Pow10(_)
Pow10(n) == IF n = 0 THEN 1 ELSE 10 * Pow10(n - 1)

DigitDotMinus(c) == c \in Digits \cup {".", "-"}

\* what is left of a text after removing every character other than
\* digits, '.', ',' and '-', and then every ','
Remainder(s) == SelectSeq(s, DigitDotMinus)

\* the text is [-]int[.frac] with the digit runs int and frac, not both empty
LiteralParts(s) ==
    {<<n, i, f>> \in BOOLEAN \X (0..Len(s)) \X (0..Len(s)) :
        /\ i + f >= 1
        /\ LET sign == IF n THEN 1 ELSE 0
           IN  /\ Len(s) \in {sign + i + f, sign + i + f + 1}
               /\ n => s[1] = "-"
               /\ DigitsAt(s, sign + 1, i)
               /\ Len(s) = sign + i + f => f = 0
               /\ Len(s) = sign + i + f + 1 =>
                     s[sign + i + 1] = "." /\ DigitsAt(s, sign + i + 2, f)}

IsDecimalLiteral(s) == LiteralParts(s) # {}

\* the decimal a literal denotes: int * 10^|frac| + frac, scaled by 10^-|frac|
LiteralValue(s) ==
    LET q == CHOOSE x \in LiteralParts(s) : TRUE
        sign == IF q[1] THEN 1 ELSE 0
        int == SubSeq(s, sign + 1, sign + q[2])
        frac == SubSeq(s, sign + q[2] + 2, sign + q[2] + 1 + q[3])
    IN  Dec(q[1], PyInt(int) * Pow10(q[3]) + PyInt(frac), 0 - q[3])

\* C1: building a record from a mapping in which one field holds unparsable
\* text (an amount whose remainder is no decimal literal, a date without any
\* digit) never raises, and that field is absent in the record built.
C1_UnparsableFieldAbsent ==
    (/\ op # "init"
     /\ IsStr(raw)
     /\ IF op \in AmountOps THEN ~IsDecimalLiteral(Remainder(raw.s))
                            ELSE ~HasDigit(raw.s))
    => (rec # ValidationError /\ rec[fld] = None)

\* C2: for every text whose remainder is a well-formed decimal literal, the
\* currency coercion returns exactly that decimal, which the record stores;
\* "$1,234.56" and "USD 1234.56" give 1234.56 and "  - 12.00 " gives -12.00.
C2_CurrencyDecimal ==
    (op \in AmountOps /\ IsStr(raw)) =>
        /\ IsDecimalLiteral(Remainder(raw.s)) =>
              /\ ret = LiteralValue(Remainder(raw.s))
              /\ rec # ValidationError
              /\ rec[fld] = ret
        /\ raw.s = <<"$", "1", ",", "2", "3", "4", ".", "5", "6">> => ret = Dec(FALSE, 123456, -2)
        /\ raw.s = <<"U", "S", "D", " ", "1", "2", "3", "4", ".", "5", "6">> => ret = Dec(FALSE, 123456, -2)
        /\ raw.s = <<" ", " ", "-", " ", "1", "2", ".", "0", "0", " ">> => ret = Dec(TRUE, 1200, -2)

C2_Witness ==
    /\ op = "LineItem"
    /\ raw = Str(<<"$", "1", ",", "2", "3", "4", ".", "5", "6">>)
    /\ ret = Dec(FALSE, 123456, -2)
    /\ rec.unit_price = Dec(FALSE, 123456, -2)

\* C3: for every text whose remainder is empty after removing every
\* character other than digits, '.', ',' and '-', the currency coercion
\* returns absence.
C3_EmptyRemainderAbsent ==
    (op \in AmountOps /\ IsStr(raw) /\ ReSubCurrency(raw.s) = <<>>)
    => ret = None

\* the dates named by the substrings of s of the form MM/DD/YYYY or
\* MM-DD-YYYY that are calendar days
ValidMDYSubstrings(s) ==
    {PyDate(PyInt(SubSeq(s, p + a + b + 2, p + a + b + 5)),
            PyInt(SubSeq(s, p, p + a - 1)),
            PyInt(SubSeq(s, p + a + 1, p + a + b))) :
        <<p, a, b>> \in
            {x \in (1..Len(s)) \X {1, 2} \X {1, 2} :
                /\ MatchAt(s, x[1], <<x[2], x[3], 4>>)
                /\ s[x[1] + x[2]] = s[x[1] + x[2] + x[3] + 1]}}
    \ {ValueError}

\* C4 as stated: for every text containing a substring MM/DD/YYYY or
\* MM-DD-YYYY that names a valid calendar day, the date coercion returns the
\* date with that year, month and day.
C4_AnySubstring ==
    (op = "DocumentInfo" /\ IsStr(raw) /\ ValidMDYSubstrings(raw.s) # {})
    => ret \in ValidMDYSubstrings(raw.s)

\* where the pattern "1-2 digits, / or -, 1-2 digits, / or -, 4 digits"
\* matches s: <<position, width of the month, width of the day>>
MDYMatches(s) ==
    {x \in (1..Len(s)) \X {1, 2} \X {1, 2} : MatchAt(s, x[1], <<x[2], x[3], 4>>)}

LeftmostMDY(s) ==
    CHOOSE x \in MDYMatches(s) :
        \A y \in MDYMatches(s) :
            x[1] < y[1] \/ (x[1] = y[1] /\ Greedier(<<x[2], x[3], 4>>, <<y[2], y[3], 4>>))

\* C4 (amended): for every text whose leftmost match of the pattern
\* "1-2 digits, / or -, 1-2 digits, / or -, 4 digits" names a valid calendar
\* day, the date coercion returns the date with that year, month and day,
\* and DocumentInfo stores it; "03/15/2024" gives March 15, 2024.
C4_LeftmostMatch ==
    (op = "DocumentInfo" /\ IsStr(raw)) =>
        /\ MDYMatches(raw.s) # {} =>
              LET x == LeftmostMDY(raw.s)
                  p == x[1]
                  a == x[2]
                  b == x[3]
                  y == PyInt(SubSeq(raw.s, p + a + b + 2, p + a + b + 5))
                  m == PyInt(SubSeq(raw.s, p, p + a - 1))
                  d == PyInt(SubSeq(raw.s, p + a + 1, p + a + b))
              IN  (/\ 1 <= y /\ 1 <= m /\ m <= 12
                   /\ 1 <= d /\ d <= DaysInMonth(y, m))
                  => /\ ret = Date(y, m, d)
                     /\ rec # ValidationError
                     /\ rec.document_date = Date(y, m, d)
        /\ raw.s = <<"0", "3", "/", "1", "5", "/", "2", "0", "2", "4">> => ret = Date(2024, 3, 15)

C4_Witness ==
    /\ op = "DocumentInfo"
    /\ raw = Str(<<"0", "3", "/", "1", "5", "/", "2", "0", "2", "4">>)
    /\ ret = Date(2024, 3, 15)
    /\ rec.document_date = Date(2024, 3, 15)

\* C5: for every text of the form YYYY-MM-DD or YYYY/MM/DD that names a
\* valid calendar day and does not match the MM/DD/YYYY pattern, the date
\* coercion returns the date whose year is YYYY, month MM and day DD.
C5_YearFirst ==
    (op = "DocumentInfo" /\ IsStr(raw)) =>
        \A a \in {1, 2}, b \in {1, 2} :
            (/\ Len(raw.s) = 6 + a + b
             /\ MatchAt(raw.s, 1, <<4, a, b>>)
             /\ raw.s[5] = raw.s[6 + a]
             /\ ReSearch(date_patterns[1], raw.s) = NoMatch
             /\ PyDate(PyInt(SubSeq(raw.s, 1, 4)),
                       PyInt(SubSeq(raw.s, 6, 5 + a)),
                       PyInt(SubSeq(raw.s, 7 + a, 6 + a + b))) # ValueError)
            => ret = Date(PyInt(SubSeq(raw.s, 1, 4)),
                          PyInt(SubSeq(raw.s, 6, 5 + a)),
                          PyInt(SubSeq(raw.s, 7 + a, 6 + a + b)))

\* the year a 2-digit year stands for
Century(yy) == IF yy < 50 THEN 2000 + yy ELSE 1900 + yy

\* C6: for every text of the form MM/DD/YY or MM-DD-YY that matches neither
\* 4-digit-year pattern (and names a calendar day), the date coercion
\* returns the date with month MM, day DD and year 2000+YY when YY < 50,
\* otherwise 1900+YY.
C6_TwoDigitYear ==
    (op = "DocumentInfo" /\ IsStr(raw)) =>
        \A a \in {1, 2}, b \in {1, 2} :
            (/\ Len(raw.s) = 4 + a + b
             /\ MatchAt(raw.s, 1, <<a, b, 2>>)
             /\ raw.s[a + 1] = raw.s[a + b + 2]
             /\ ReSearch(date_patterns[1], raw.s) = NoMatch
             /\ ReSearch(date_patterns[2], raw.s) = NoMatch
             /\ PyDate(Century(PyInt(SubSeq(raw.s, a + b + 3, a + b + 4))),
                       PyInt(SubSeq(raw.s, 1, a)),
                       PyInt(SubSeq(raw.s, a + 2, a + b + 1))) # ValueError)
            => ret = Date(Century(PyInt(SubSeq(raw.s, a + b + 3, a + b + 4))),
                          PyInt(SubSeq(raw.s, 1, a)),
                          PyInt(SubSeq(raw.s, a + 2, a + b + 1)))

----------------------------------------------------------------------------
(* Claims about the document: saving and flattening *)

RebuiltFields ==
    {"document_info", "vendor", "customer", "line_items", "subtotal",
     "tax_info", "total_amount", "payment_info"}

\* C7: round trip: the records built again from the JSON mapping of a
\* document are field for field equal to the document's; in particular
\* document_date and every decimal field come back with the same value.
C7_RoundTrip ==
    rebuilt # Unset => \A n \in RebuiltFields : rebuilt[n] = doc[n]

ItemKeys ==
    {"item_name", "quantity", "unit_price", "item_total_price", "item_code",
     "item_category"}

\* the six item keys of the row r carry the values of the line item
CarriesItem(r, item) ==
    /\ r.item_name = item.item_name
    /\ r.quantity = item.quantity
    /\ r.unit_price = FloatOrNone(item.unit_price)
    /\ r.item_total_price = FloatOrNone(item.total_price)
    /\ r.item_code = item.item_code
    /\ r.item_category = item.category

\* C8: for a document with N >= 1 line items, to_line_items_list() returns
\* exactly N rows; row i has line_item_number = i and its item keys come
\* from the i-th line item; every other key has the same value in all rows.
C8_RowPerLineItem ==
    (rows # Unset /\ Len(doc.line_items.l) >= 1) =>
        /\ Len(rows.l) = Len(doc.line_items.l)
        /\ \A i \in 1..Len(rows.l) :
              /\ rows.l[i].line_item_number = IntVal(i)
              /\ CarriesItem(rows.l[i], doc.line_items.l[i])
              /\ \A j \in 1..Len(rows.l) :
                    /\ DOMAIN rows.l[i] = DOMAIN rows.l[j]
                    /\ \A k \in DOMAIN rows.l[i] \ (ItemKeys \cup {"line_item_number"}) :
                          rows.l[i][k] = rows.l[j][k]

C8_Witness ==
    /\ rows # Unset
    /\ Len(doc.line_items.l) = MaxItems
    /\ Len(rows.l) = MaxItems
    /\ rows.l[1].item_name # rows.l[MaxItems].item_name
    /\ rows.l[MaxItems].line_item_number = IntVal(MaxItems)

\* C9: for a document with zero line items, to_line_items_list() returns
\* exactly one row, and that row is equal, key for key and value for value,
\* to what to_flat_dict() returns for the document.
C9_NoItemsOneFlatRow ==
    (rows # Unset /\ flat # Unset /\ doc.line_items.l = <<>>) =>
        /\ Len(rows.l) = 1
        /\ DOMAIN rows.l[1] = DOMAIN flat
        /\ \A k \in DOMAIN flat : rows.l[1][k] = flat[k]

C9_Witness ==
    /\ rows # Unset
    /\ flat # Unset
    /\ doc.line_items.l = <<>>
    /\ doc.notes = None
    /\ doc.subtotal # None
    /\ Len(rows.l) = 1
    /\ rows.l[1].subtotal = flat.subtotal

\* C10: to_flat_dict() has total_line_items equal to the number of line
\* items; when there are line items the six item keys carry the first line
\* item's values, and when there are none all six are absent and
\* total_line_items is 0.
C10_FlatFirstItem ==
    flat # Unset =>
        /\ flat.total_line_items = IntVal(Len(doc.line_items.l))
        /\ doc.line_items.l # <<>> => CarriesItem(flat, doc.line_items.l[1])
        /\ doc.line_items.l = <<>> =>
              /\ \A k \in ItemKeys : flat[k] = None
              /\ flat.total_line_items = IntVal(0)

C10_Witness ==
    /\ flat # Unset
    /\ Len(doc.line_items.l) = MaxItems
    /\ doc.line_items.l[1].item_name # doc.line_items.l[MaxItems].item_name
    /\ flat.item_name = doc.line_items.l[1].item_name
    /\ flat.total_line_items = IntVal(MaxItems)

----------------------------------------------------------------------------
(* Claims about the rows of a batch *)

\* C11: every row produced for export has the same key set: whatever the
\* number of line items of the documents of a batch, any two of the rows
\* that to_flat_dict() and to_line_items_list() give save_to_csv have
\* exactly the same keys.
C11_FixedKeySet ==
    all_items # Unset =>
        \A i \in 1..Len(all_items.l), j \in 1..Len(all_items.l) :
            DOMAIN all_items.l[i] = DOMAIN all_items.l[j]

----------------------------------------------------------------------------
(* Claims about the exported amounts *)

\* the float f and the decimal x are the same number
SameNumber(f, x) ==
    /\ f.t = "float"
    /\ f.neg = x.neg
    /\ LET m == IF f.exp < x.exp THEN f.exp ELSE x.exp
       IN  f.coef * Pow10(f.exp - m) = x.coef * Pow10(x.exp - m)

\* out is the export of the stored decimal x: absent exactly when x is
\* absent or zero, else the same number
Exports(out, x) ==
    /\ out = None <=> (x = None \/ x.coef = 0)
    /\ out # None => SameNumber(out, x)

\* the five document-level amounts of the row r are the exports of d's
ExportsAmounts(r, d) ==
    /\ Exports(r.subtotal, d.subtotal)
    /\ Exports(r.tax_amount, d.tax_info.tax_amount)
    /\ Exports(r.total_amount, d.total_amount)
    /\ Exports(r.paid_amount, d.payment_info.paid_amount)
    /\ Exports(r.balance_due, d.payment_info.balance_due)

\* C12: in to_flat_dict() and to_line_items_list(), each decimal field
\* (subtotal, tax_amount, total_amount, paid_amount, balance_due,
\* unit_price, item_total_price) is exported as absent exactly when the
\* document's value is absent or equal to zero, and otherwise as the number
\* equal to the stored decimal.
C12_ZeroExportedAbsent ==
    /\ flat # Unset =>
          /\ ExportsAmounts(flat, doc)
          /\ doc.line_items.l # <<>> =>
                /\ Exports(flat.unit_price, doc.line_items.l[1].unit_price)
                /\ Exports(flat.item_total_price,
                           doc.line_items.l[1].total_price)
    /\ rows # Unset =>
          \A i \in 1..Len(rows.l) :
              /\ ExportsAmounts(rows.l[i], doc)
              /\ doc.line_items.l # <<>> =>
                    /\ Exports(rows.l[i].unit_price,
                               doc.line_items.l[i].unit_price)
                    /\ Exports(rows.l[i].item_total_price,
                               doc.line_items.l[i].total_price)

C12_Witness ==
    /\ flat # Unset
    /\ rows # Unset
    /\ doc.tax_info.tax_amount = Dec(FALSE, 0, -2)
    /\ flat.tax_amount = None
    /\ doc.total_amount = Dec(FALSE, 1050, -2)
    /\ flat.total_amount = Float(FALSE, 105, -1)
    /\ Len(rows.l) = MaxItems
    /\ doc.line_items.l[MaxItems].unit_price = Dec(FALSE, 0, 0)
    /\ rows.l[MaxItems].unit_price = None
    /\ rows.l[MaxItems].balance_due = None

----------------------------------------------------------------------------
(* Claims about extract_structured_data *)

\* the line item of the payload holds a price that is no amount
MalformedPrice(item) ==
    /\ item.t = "dict"
    /\ "unit_price" \in DOMAIN item.d
    /\ IsStr(item.d.unit_price)
    /\ ~IsDecimalLiteral(Remainder(item.d.unit_price.s))

\* the positions of the line items of the payload with a malformed price
MalformedItems(resp) ==
    {i \in 1..Len(resp.d.line_items.l) :
        MalformedPrice(resp.d.line_items.l[i])}

\* the payload is well-formed except for one unparsable price
OneMalformedField(resp) ==
    /\ resp.t = "dict"
    /\ resp \notin WrongShapedData
    /\ "line_items" \in DOMAIN resp.d
    /\ Cardinality(MalformedItems(resp)) = 1

\* C13: when the decoded payload is well-formed except for one field
\* holding malformed text (here an unparsable unit price), the document
\* extract_structured_data returns still carries every other field of the
\* payload (the vendor, all the line items); only the malformed field is
\* absent, and the document is not replaced by an empty one with a note.
C13_OneBadFieldKeepsRest ==
    (doc # Unset /\ OneMalformedField(response)) =>
        LET items == response.d.line_items.l
            bad == CHOOSE i \in MalformedItems(response) : TRUE
        IN  /\ doc.notes = None
            /\ Len(doc.line_items.l) = Len(items)
            /\ doc.line_items.l[bad].unit_price = None
            /\ doc.line_items.l[bad].item_name = items[bad].d.item_name
            /\ "vendor" \in DOMAIN response.d =>
                  doc.vendor.name = response.d.vendor.d.name

\* every field of the record r is absent
AllAbsent(r) == \A n \in DOMAIN r : r[n] = None

\* every field of the document d other than notes, source_filename and
\* processed_at is at its default
EmptyDocument(d) ==
    /\ AllAbsent(d.document_info)
    /\ AllAbsent(d.vendor)
    /\ AllAbsent(d.customer)
    /\ AllAbsent(d.tax_info)
    /\ AllAbsent(d.payment_info)
    /\ d.line_items = List(<<>>)
    /\ d.subtotal = None
    /\ d.total_amount = None
    /\ d.confidence_score = None
    /\ d.currency = Str(<<"U", "S", "D">>)

\* C14: when the response is not valid JSON, extract_structured_data
\* raises nothing and returns a StructuredDocument whose notes is a
\* non-empty explanation, whose source_filename is the filename passed in,
\* whose processed_at is set, and whose every other field is at its default.
C14_InvalidJSONDocument ==
    (doc # Unset /\ response = InvalidJSON) =>
        /\ IsRecord(doc)
        /\ DOMAIN doc = StructuredDocumentFields
        /\ IsStr(doc.notes) /\ doc.notes.s # <<>>
        /\ doc.source_filename = filename
        /\ doc.processed_at \in {Datetime(n) : n \in Ticks}
        /\ EmptyDocument(doc)

C14_Witness ==
    /\ doc # Unset
    /\ response = InvalidJSON
    /\ raised = InvalidJSON
    /\ SubSeq(doc.notes.s, 1, 4) = <<"J", "S", "O", "N">>
    /\ doc.source_filename = filename

\* C16 as stated: when a nested section of the payload has the wrong shape
\* (no mapping for document_info, vendor, customer, tax_info or
\* payment_info, no sequence of mappings for line_items), building the
\* document reports a structural error to the caller; the violation is not
\* absorbed into absent fields or into a notes message.
C16_WrongShapeSurfaces ==
    (doc # Unset /\ response \in WrongShapedData) =>
        ~(IsRecord(doc) /\ doc.notes # None)

\* an empty text or an empty mapping, over which a loop takes no turn
EmptyIterable(x) ==
    \/ x.t = "str" /\ x.s = <<>>
    \/ x.t = "dict" /\ DOMAIN x.d = {}

\* line_items of the payload is an empty text or an empty mapping
EmptyLineItems(resp) ==
    /\ "line_items" \in DOMAIN resp.d
    /\ EmptyIterable(resp.d.line_items)

\* C16 (amended): when a nested section of the payload has the wrong shape,
\* building the records raises a structural error (TypeError or
\* ValidationError) instead of building a record with absent fields;
\* extract_structured_data catches it and returns an empty document whose
\* notes is "Extraction error: ...", with source_filename and processed_at
\* set.  Only an empty text or empty mapping given for line_items raises
\* nothing: it reads as no line items.
C16_WrongShapeRaisedAndNoted ==
    /\ (doc # Unset /\ response \in WrongShapedData
            /\ EmptyLineItems(response)) =>
          /\ raised = None
          /\ doc.notes = None
          /\ doc.line_items = List(<<>>)
          /\ doc.vendor.name = response.d.vendor.d.name
    /\ (doc # Unset /\ response \in WrongShapedData
            /\ ~EmptyLineItems(response)) =>
        /\ raised \in {TypeError, ValidationError}
        /\ IsRecord(doc)
        /\ IsStr(doc.notes)
        /\ Len(doc.notes.s) >= 18
        /\ SubSeq(doc.notes.s, 1, 18) =
              <<"E", "x", "t", "r", "a", "c", "t", "i", "o", "n", " ",
                "e", "r", "r", "o", "r", ":", " ">>
        /\ doc.source_filename = filename
        /\ doc.processed_at \in {Datetime(n) : n \in Ticks}
        /\ EmptyDocument(doc)

C16_Witness ==
    /\ doc # Unset
    /\ response = Dict([vendor |-> Str(<<"a", "b", "c">>)])
    /\ raised = TypeError
    /\ doc.notes # None
    /\ AllAbsent(doc.vendor)

----------------------------------------------------------------------------
(* Claims about the defaults of the records *)

Sections == {"document_info", "vendor", "customer", "tax_info", "payment_info"}

\* the record r built from a mapping that gives only the field f has every
\* other field absent
OthersAbsent(r, f) == \A n \in DOMAIN r \ {f} : r[n] = None

\* the fields of the document r that the mapping m gives hold what m gives,
\* each coerced by its own rule
SuppliedKept(r, m) ==
    /\ "currency" \in DOMAIN m => r.currency = m.currency
    /\ "notes" \in DOMAIN m => r.notes = m.notes
    /\ "processed_at" \in DOMAIN m => r.processed_at = m.processed_at
    /\ "subtotal" \in DOMAIN m => r.subtotal = Dec(FALSE, 123456, -2)
    /\ "document_info" \in DOMAIN m =>
          r.document_info.document_number = m.document_info.d.document_number
    /\ "vendor" \in DOMAIN m =>
          /\ r.vendor.name = m.vendor.d.name
          /\ r.vendor.phone = Str(<<"5">>)
    /\ "payment_info" \in DOMAIN m =>
          r.payment_info.payment_method = m.payment_info.d.payment_method
    /\ "line_items" \in DOMAIN m =>
          /\ Len(r.line_items.l) = Len(m.line_items.l)
          /\ \A i \in 1..Len(r.line_items.l) :
                /\ r.line_items.l[i].item_name = m.line_items.l[i].d.item_name
                /\ r.line_items.l[i].unit_price = Dec(FALSE, 2, 0)

\* C17 as stated: for every record built from a mapping that lacks some
\* fields, each lacking field is absent in the result, except that a
\* StructuredDocument built without a currency has currency "USD", one
\* built without line_items has an empty line-item sequence, and one built
\* without a nested section has that section as a record with all fields
\* absent; the fields that were supplied are unaffected.
C17_LackingFieldsAbsent ==
    /\ (op \in {"LineItem", "TaxInfo", "PaymentInfo", "DocumentInfo",
                 "ContactInfo"} /\ IsRecord(rec)) => OthersAbsent(rec, fld)
    /\ (op = "StructuredDocument" /\ IsRecord(rec)) =>
          /\ \A n \in StructuredDocumentFields \ DOMAIN raw.d :
                CASE n = "currency" -> rec[n] = Str(<<"U", "S", "D">>)
                  [] n = "line_items" -> rec[n] = List(<<>>)
                  [] n \in Sections -> AllAbsent(rec[n])
                  [] OTHER -> rec[n] = None
          /\ SuppliedKept(rec, raw.d)

\* C17 (amended): as stated, with one more exception: a StructuredDocument
\* built without processed_at has processed_at set to the current time.
C17_LackingFieldsDefaulted ==
    /\ (op \in {"LineItem", "TaxInfo", "PaymentInfo", "DocumentInfo",
                 "ContactInfo"} /\ IsRecord(rec)) => OthersAbsent(rec, fld)
    /\ (op = "StructuredDocument" /\ IsRecord(rec)) =>
          /\ \A n \in StructuredDocumentFields \ DOMAIN raw.d :
                CASE n = "currency" -> rec[n] = Str(<<"U", "S", "D">>)
                  [] n = "line_items" -> rec[n] = List(<<>>)
                  [] n \in Sections -> AllAbsent(rec[n])
                  [] n = "processed_at" ->
                        rec[n] \in {Datetime(t) : t \in Ticks}
                  [] OTHER -> rec[n] = None
          /\ SuppliedKept(rec, raw.d)

C17_Witness ==
    /\ op = "StructuredDocument"
    /\ IsRecord(rec)
    /\ DOMAIN raw.d = {"notes", "subtotal", "vendor"}
    /\ rec.currency = Str(<<"U", "S", "D">>)
    /\ rec.line_items = List(<<>>)
    /\ AllAbsent(rec.customer)
    /\ rec.notes = Str(<<"n">>)
    /\ rec.vendor.name = Str(<<"a">>)
    /\ rec.processed_at = Datetime(MaxTick)

----------------------------------------------------------------------------
(* Claims about phone and email *)

Blank(c) == c \in {" ", "\t", "\n", "\r", "\f"}

PhoneCharacter(c) == c \in Digits \cup {"+", "-", "(", ")"} \/ Blank(c)

\* s without the blanks at its two ends
Trimmed(s) ==
    LET inner == {i \in 1..Len(s) : ~Blank(s[i])}
    IN  IF inner = {} THEN <<>>
        ELSE SubSeq(s, CHOOSE i \in inner : \A j \in inner : i <= j,
                       CHOOSE i \in inner : \A j \in inner : i >= j)

\* C18: for every non-empty phone text, the stored phone is exactly the
\* input's characters that are digits, '+', '-', '(', ')' or whitespace, in
\* their original order, with leading and trailing whitespace removed; no
\* other character survives, and cleaning a cleaned phone changes nothing.
\* "+1 (555) 123-4567 ext.9" gives "+1 (555) 123-4567 9".
C18_PhoneCleaned ==
    (op = "ContactInfo" /\ fld = "phone" /\ IsStr(raw) /\ raw.s # <<>>) =>
        /\ ret = Str(Trimmed(SelectSeq(raw.s, PhoneCharacter)))
        /\ IsRecord(rec)
        /\ rec.phone = ret
        /\ \A i \in 1..Len(rec.phone.s) : PhoneCharacter(rec.phone.s[i])
        /\ clean_phone(rec.phone) = rec.phone
        /\ raw.s = <<"+", "1", " ", "(", "5", "5", "5", ")", " ", "1", "2", "3",
                       "-", "4", "5", "6", "7", " ", "e", "x", "t", ".", "9">>
              => rec.phone.s = <<"+", "1", " ", "(", "5", "5", "5", ")", " ", "1", "2", "3",
                                "-", "4", "5", "6", "7", " ", "9">>

C18_Witness ==
    /\ op = "ContactInfo"
    /\ fld = "phone"
    /\ raw = Str(<<"+", "1", " ", "(", "5", "5", "5", ")", " ", "1", "2", "3",
                 "-", "4", "5", "6", "7", " ", "e", "x", "t", ".", "9">>)
    /\ rec.phone = Str(<<"+", "1", " ", "(", "5", "5", "5", ")", " ", "1", "2", "3",
                       "-", "4", "5", "6", "7", " ", "9">>)

UpperLetters ==
    <<"A", "B", "C", "D", "E", "F", "G", "H", "I", "J", "K", "L",
      "M", "N", "O", "P", "Q", "R", "S", "T", "U", "V", "W", "X",
      "Y", "Z">>

LowerLetters ==
    <<"a", "b", "c", "d", "e", "f", "g", "h", "i", "j", "k", "l",
      "m", "n", "o", "p", "q", "r", "s", "t", "u", "v", "w", "x",
      "y", "z">>

\* s with every upper-case letter replaced by its lower-case letter
Lowered(s) ==
    [i \in 1..Len(s) |->
        IF \E k \in 1..Len(UpperLetters) : UpperLetters[k] = s[i]
        THEN LowerLetters[CHOOSE k \in 1..Len(UpperLetters) :
                              UpperLetters[k] = s[i]]
        ELSE s[i]]

HasAt(s) == \E i \in 1..Len(s) : s[i] = "@"

\* C19: for every email text containing '@', the stored email is the input
\* lower-cased with leading and trailing whitespace removed
\* (" John@Example.COM " gives "john@example.com"); for every text without
\* '@' and for absence, the value is stored unchanged; a malformed address
\* is never rejected, and normalizing twice gives the same as once.
C19_EmailNormalized ==
    (op = "ContactInfo" /\ fld = "email") =>
        /\ IsRecord(rec)
        /\ rec.email = ret
        /\ (IsStr(raw) /\ HasAt(raw.s)) => ret = Str(Trimmed(Lowered(raw.s)))
        /\ ~(IsStr(raw) /\ HasAt(raw.s)) => ret = raw
        /\ validate_email(ret) = ret
        /\ raw = Str(<<" ", "J", "o", "h", "n", "@", "E", "x", "a", "m", "p", "l", "e", ".", "C", "O", "M", " ">>)
              => ret = Str(<<"j", "o", "h", "n", "@", "e", "x", "a", "m", "p", "l", "e", ".", "c", "o", "m">>)

C19_Witness ==
    /\ op = "ContactInfo"
    /\ fld = "email"
    /\ raw = Str(<<" ", "J", "o", "h", "n", "@", "E", "x", "a", "m", "p", "l", "e", ".", "C", "O", "M", " ">>)
    /\ rec.email = Str(<<"j", "o", "h", "n", "@", "e", "x", "a", "m", "p", "l", "e", ".", "c", "o", "m">>)

----------------------------------------------------------------------------
(* Claims about the order of the date patterns *)

\* the patterns that match a substring of s
Matching(s) ==
    {i \in 1..Len(date_patterns) : ReSearch(date_patterns[i], s) # NoMatch}

\* the patterns whose leftmost match in s gives a valid date
Yielding(s) ==
    {i \in Matching(s) :
        DateOfGroups(i, ReSearch(date_patterns[i], s)) # ValueError}

First(S) == CHOOSE i \in S : \A j \in S : i <= j

\* C20 as stated: the three patterns are tried in the order MM/DD/YYYY,
\* YYYY/MM/DD, MM/DD/YY and the result is decided by the first pattern that
\* matches a substring of the input: once a pattern has matched, no later
\* pattern is consulted (the result is that pattern's date, or the text).
C20_FirstMatchDecides ==
    (op = "DocumentInfo" /\ IsStr(raw) /\ Matching(raw.s) # {}) =>
        LET i == First(Matching(raw.s))
        IN  ret \in {raw, DateOfGroups(i, ReSearch(date_patterns[i], raw.s))}

\* C20 (amended): the three patterns are tried in the order MM/DD/YYYY,
\* YYYY/MM/DD, MM/DD/YY and the result is the date of the first pattern
\* whose match gives a valid date, even when a later pattern would give one
\* too; a pattern that matches without giving a valid date is passed over
\* and the later patterns are still consulted; when no pattern gives a
\* date the text is returned as it is.
C20_FirstDateWins ==
    (op = "DocumentInfo" /\ IsStr(raw)) =>
        IF Yielding(raw.s) = {} THEN ret = raw
        ELSE LET i == First(Yielding(raw.s))
             IN  ret = DateOfGroups(i, ReSearch(date_patterns[i], raw.s))

\* the first and the third pattern both give a date, and the first wins
C20_Witness ==
    /\ op = "DocumentInfo"
    /\ raw = Str(<<"0", "3", "/", "1", "2", "/", "2", "0", "2", "4">>)
    /\ Yielding(raw.s) = {1, 3}
    /\ DateOfGroups(3, ReSearch(date_patterns[3], raw.s)) = Date(2020, 12, 20)
    /\ ret = Date(2024, 3, 12)

----------------------------------------------------------------------------
(* Claims about the batch *)

\* C15: a batch never crashes on a per-document problem: whatever fails
\* for an image (loading, text recognition, the extraction call, invalid
\* JSON, building the records), process_all_images appends exactly one
\* StructuredDocument per image, in input order; no exception leaves the
\* loop, so a failure never keeps it from the images that follow.
C15_BatchNeverCrashes ==
    /\ results.t = "list"
    /\ Len(results.l) <= Len(images.l)
    /\ \A i \in 1..Len(results.l) :
          /\ IsRecord(results.l[i])
          /\ DOMAIN results.l[i] = StructuredDocumentFields
          /\ results.l[i].source_filename = images.l[i].name

C15_Witness ==
    /\ Len(images.l) = MaxImages
    /\ Len(results.l) = MaxImages
    /\ images.l[1].fail = "open"
    /\ results.l[1].notes # None
    /\ results.l[MaxImages].notes = None
    /\ results.l[MaxImages].line_items.l # <<>>

----------------------------------------------------------------------------
(* Claims about a date text that no pattern matches *)

\* C21: for every date text that matches none of the three patterns, the
\* date coercion returns the original text unchanged and signals no error,
\* and DocumentInfo is built with document_date holding that text: the
\* construction does not fail.
C21_UnmatchedTextKept ==
    (op = "DocumentInfo" /\ IsStr(raw) /\ Matching(raw.s) = {}) =>
        /\ ret = raw
        /\ rec # ValidationError
        /\ rec.document_date = raw

----------------------------------------------------------------------------
(* Claims about the one coercion rule of the currency fields *)

\* what the constructor left in the field it was given, or its error
Stored == IF IsRecord(rec) THEN rec[fld] ELSE rec

\* C22: all decimal currency fields use one and the same coercion rule: for
\* every input value (absence, number, decimal or text), the coercion of
\* TaxInfo.tax_amount, of PaymentInfo.paid_amount and balance_due and of
\* StructuredDocument.subtotal and total_amount returns what the coercion
\* of LineItem.unit_price and total_price returns for that value, and the
\* field ends up holding the same (or the construction fails alike).
C22_OneCoercionRule ==
    (op \in AmountOps) =>
        /\ ret = parse_price(raw)
        /\ Stored = IF IsRecord(LineItem([NoLineItem EXCEPT !.unit_price = raw]))
                    THEN LineItem([NoLineItem EXCEPT !.unit_price = raw]).unit_price
                    ELSE LineItem([NoLineItem EXCEPT !.unit_price = raw])

\* a total given as "$1,234.56" is coerced as a price is
C22_Witness ==
    /\ op = "StructuredDocumentAmount"
    /\ fld = "total_amount"
    /\ raw = Str(<<"$", "1", ",", "2", "3", "4", ".", "5", "6">>)
    /\ ret = Dec(FALSE, 123456, -2)
    /\ IsRecord(rec)
    /\ rec.total_amount = ret
    /\ parse_price(raw) = ret

----------------------------------------------------------------------------
(* Claims about what a StructuredDocument depends on *)

\* C23: the content of a StructuredDocument depends only on the values the
\* caller passes in, never on ambient state: two constructions from
\* identical arguments yield field-for-field equal documents, processed_at
\* included (the clock is not read by the record itself).
C23_NoAmbientState ==
    (op = "StructuredDocument" /\ again # Unset) => again = rec

----------------------------------------------------------------------------
(* Claims about what flattening leaves alone *)

\* the document is what extract_structured_data returned at its clock reading
DocumentUntouched ==
    \E now \in Ticks : doc = extract_structured_data(response, filename, now)

\* C24: flattening only reads the document: after any sequence of
\* to_flat_dict() and to_line_items_list() calls, and of assignments to a
\* key of a returned row, the document is as it was built, what each call
\* returned last is what a first call returns, and an assignment to a key of
\* one returned row has changed that row alone: every other row, and what
\* to_flat_dict() returned, are as they were returned.
C24_FlatteningOnlyReads ==
    (doc # Unset) =>
        /\ DocumentUntouched
        /\ flat # Unset => flat = to_flat_dict(doc)
        /\ (rows # Unset /\ written = Unset) => rows = to_line_items_list(doc)
        /\ written # Unset =>
              /\ Len(rows.l) = Len(to_line_items_list(doc).l)
              /\ \A j \in 1..Len(rows.l) :
                    rows.l[j] =
                        IF j = written.i
                        THEN [to_line_items_list(doc).l[j]
                                 EXCEPT ![written.k] =
                                     Str(<<"c", "h", "a", "n", "g", "e", "d">>)]
                        ELSE to_line_items_list(doc).l[j]

\* the first of two rows was assigned to after both flattenings ran
C24_Witness ==
    /\ doc # Unset
    /\ flat # Unset
    /\ written = [i |-> 1, k |-> "notes"]
    /\ Len(rows.l) = 2
    /\ rows.l[1].notes = Str(<<"c", "h", "a", "n", "g", "e", "d">>)
    /\ rows.l[2].notes = Str(<<"n">>)
    /\ flat.notes = Str(<<"n">>)

----------------------------------------------------------------------------
(* Claims about a payload key that is null *)

\* the payload without the keys whose value is null
WithoutNulls(resp) ==
    Dict([k \in {n \in DOMAIN resp.d : resp.d[n] # None} |-> resp.d[k]])

\* C25: in extract_structured_data a payload key present with the value
\* null is treated exactly like a missing key: the document returned is the
\* one returned for the payload without that key (a null section gives a
\* record with all fields absent, null line_items an empty sequence, null
\* currency "USD"), the rest of the payload being carried into it.
C25_NullAsMissing ==
    (doc # Unset /\ response \in NullData) =>
        \E now \in Ticks :
            doc = extract_structured_data(WithoutNulls(response), filename, now)

----------------------------------------------------------------------------
(* Claims about the sections of an image *)

\* the pixel row y is in one of the sections
Covered(y) ==
    \E k \in 1..Len(sections_list.l) :
        sections_list.l[k].upper <= y /\ y < sections_list.l[k].lower

\* C26: for every image height >= 1, every section count >= 1 and every
\* overlap fraction of the callers, the sections split_image_into_sections
\* and adaptive_split return cover every pixel row 0..height-1 of the
\* image, and the bounds of each section satisfy
\* 0 <= upper <= lower <= height.
C26_SectionsCoverImage ==
    /\ \A k \in 1..Len(sections_list.l) :
          /\ 0 <= sections_list.l[k].upper
          /\ sections_list.l[k].upper <= sections_list.l[k].lower
          /\ sections_list.l[k].lower <= height
    /\ Len(sections_list.l) = sections =>
          \A y \in 0..(height - 1) : Covered(y)

----------------------------------------------------------------------------
(* Claims about the summary of main *)

\* the document was produced on a failure path: its notes explain a JSON
\* parsing, extraction or processing error
FailurePath(d) ==
    /\ IsStr(d.notes)
    /\ \/ StartsWith(d.notes.s, JSONErrorNote)
       \/ StartsWith(d.notes.s, ExtractionErrorNote)
       \/ StartsWith(d.notes.s, ProcessingErrorNote)

\* C27: for any batch result, the summary of main counts as failed exactly
\* the documents produced on a failure path and as successful all the
\* others, documents extracted without notes included; successful + failed
\* is the number of documents processed.
C27_SummaryCountsFailures ==
    (summary # Unset) =>
        /\ IsRecord(summary)
        /\ summary.failed =
              Cardinality({i \in 1..Len(results.l) : FailurePath(results.l[i])})
        /\ summary.successful + summary.failed = Len(results.l)

====
